---- MODULE Spec2Model ----
(***************************************************************************)
(* A model of the simulation engine of quant-iq-vision: the GBM path       *)
(* simulator (backtester.run_monte_carlo_simulation and the /montecarlo    *)
(* endpoint), the scenario replay (backtester.scenario_stress_test) and    *)
(* the Heston calibration and path simulation (/heston endpoint).          *)
(*                                                                         *)
(* Numbers.  The GBM code is modelled in exact rational arithmetic.  A     *)
(* rational is a pair <<n, d>> in lowest terms with d > 0; <<0, 0>> is NaN *)
(* (the result of 0/0 and of any operation on a NaN).  Log returns are     *)
(* measured in units of ln 4, so that exp() of a half-integer log return   *)
(* is an exact power of two: Exp(x) = 2^(2x).  The Heston code, whose      *)
(* square roots are not rational, is modelled in fixed point.              *)
(*                                                                         *)
(* Randomness.  numpy's module-level generator (np.random.normal,          *)
(* np.random.seed) is one process-wide stream: the variable rng is its     *)
(* state, every draw reads it and advances it.                             *)
(***************************************************************************)
EXTENDS Integers, Sequences, FiniteSets, TLC

(***************************************************************************)
(* Arrays.  A numpy array or pandas column is a finite function whose      *)
(* entries are computed when it is built: Arr (index 1..n) and Tab (any    *)
(* index set) build the function with every entry evaluated.               *)
(***************************************************************************)
Arr(f) == <<>> \o f

Tab(f) == f @@ <<>>

(***************************************************************************)
(* Rational arithmetic                                                     *)
(***************************************************************************)
NaN == <<0, 0>>

IsNaN(a) == a[2] = 0

Abs(n) == IF n < 0 THEN -n ELSE n

RECURSIVE GCD(_, _)
GCD(a, b) == IF b = 0 THEN a ELSE GCD(b, a % b)

RNorm(n, d) ==
    IF d = 0 THEN NaN
    ELSE LET g == GCD(Abs(n), Abs(d))
             s == IF d < 0 THEN -1 ELSE 1
         IN  <<(s * n) \div g, (s * d) \div g>>

R(n) == <<n, 1>>

RAdd(a, b) ==
    IF IsNaN(a) \/ IsNaN(b) THEN NaN
    ELSE LET g == GCD(a[2], b[2])
             l == (a[2] \div g) * b[2]
         IN  RNorm(a[1] * (l \div a[2]) + b[1] * (l \div b[2]), l)

RNeg(a) == IF IsNaN(a) THEN NaN ELSE <<-a[1], a[2]>>

RSub(a, b) == RAdd(a, RNeg(b))

RMul(a, b) ==
    IF IsNaN(a) \/ IsNaN(b) THEN NaN
    ELSE LET g1 == GCD(Abs(a[1]), b[2])
             g2 == GCD(Abs(b[1]), a[2])
         IN  RNorm((a[1] \div g1) * (b[1] \div g2), (a[2] \div g2) * (b[2] \div g1))

\* a / b in IEEE arithmetic restricted to finite results: 0/0 and NaN operands
\* give NaN.  (No division of a non-zero number by zero occurs on the inputs
\* enumerated below.)
RDiv(a, b) ==
    IF IsNaN(a) \/ IsNaN(b) \/ b[1] = 0 THEN NaN
    ELSE RMul(a, RNorm(b[2], b[1]))

\* Comparisons with a NaN are false, as in IEEE arithmetic.  Two numbers are
\* compared by their integer parts and then by their fractional parts.
RLess(a, b) ==
    /\ ~IsNaN(a) /\ ~IsNaN(b)
    /\ LET fa == a[1] \div a[2]
           fb == b[1] \div b[2]
       IN  IF fa # fb THEN fa < fb
           ELSE (a[1] % a[2]) * b[2] < (b[1] % b[2]) * a[2]

RLeq(a, b) == ~IsNaN(a) /\ ~IsNaN(b) /\ ~RLess(b, a)

RECURSIVE RSum(_)
RSum(s) == IF s = <<>> THEN R(0) ELSE RAdd(Head(s), RSum(Tail(s)))

\* np.mean / Series.mean of a sequence of numbers: the mean of nothing is NaN.
RMean(s) == RDiv(RSum(s), R(Len(s)))

RECURSIVE Pow2(_)
Pow2(k) == IF k = 0 THEN 1 ELSE 2 * Pow2(k - 1)

\* np.exp on log returns measured in units of ln 4: exp(n/1) = 4^n and
\* exp(n/2) = 2^n.  Defined on integers and half-integers only.
Exp(x) ==
    IF IsNaN(x) THEN NaN
    ELSE LET k == CASE x[2] = 1 -> 2 * x[1]
                     [] x[2] = 2 -> x[1]
         IN  IF k >= 0 THEN <<Pow2(k), 1>> ELSE <<1, Pow2(-k)>>

RECURSIVE Log2(_)
Log2(n) == IF n <= 1 THEN 0 ELSE 1 + Log2(n \div 2)

\* np.log of a price ratio that is a power of two, in units of ln 4.
Log(x) ==
    IF IsNaN(x) THEN NaN
    ELSE RNorm(Log2(x[1]) - Log2(x[2]), 2)

\* np.sqrt of a rational whose numerator and denominator are perfect squares
\* (the Cholesky pivots of the covariance matrices enumerated below).
ISqrt(n) == CHOOSE r \in 0..n : r * r = n

RSqrt(x) == IF IsNaN(x) THEN NaN ELSE <<ISqrt(x[1]), ISqrt(x[2])>>

(***************************************************************************)
(* Market data                                                             *)
(*                                                                         *)
(* Dates are the integers 0..50; date 0 carries the first price, and the   *)
(* dates 1..50 fall into ten blocks of five trading days, one per          *)
(* catalogue window.  A data set says from which date each column has a    *)
(* price and on which date the download ends.                              *)
(***************************************************************************)
Columns == {"A", "B", "C", "D", "SPY", "CASH"}

Dates == 0..50

\* The close price of column c on date d once it is listed.  Within a block
\* the log returns (in units of ln 4) are
\*   A:  1, -1,  1, -1, 0          D:  1, -1, -1,  1, 0
\*   C:  2,  0,  0, -2, 0 (= A's plus B's pattern)
\*   B:  1,  1, -1, -1, 0  shifted by +1/2 in odd and -1/2 in even blocks
\*   SPY: 1, 0, -1, 0, 0
\* CASH never moves: its price is 1 and its log return 0 on every date.
ListedPrice(c, d) ==
    IF d = 0 THEN R(1)
    ELSE LET j == ((d - 1) % 5) + 1
             odd == (((d - 1) \div 5) % 2) = 0
         IN  CASE c = "A"   -> R(<<4, 1, 4, 1, 1>>[j])
               [] c = "B"   -> IF odd THEN R(<<8, 64, 32, 16, 32>>[j])
                                      ELSE R(<<64, 128, 16, 2, 1>>[j])
               [] c = "C"   -> R(<<16, 16, 16, 1, 1>>[j])
               [] c = "D"   -> IF j = 3 THEN <<1, 4>> ELSE R(<<4, 1, 1, 1, 1>>[j])
               [] c = "SPY" -> R(<<4, 4, 1, 1, 1>>[j])
               [] c = "CASH" -> R(1)

DataSets == <<
    [listed |-> [A |-> 0,  B |-> 0,  C |-> 7,  D |-> 12, SPY |-> 5,  CASH |-> 0],
     end |-> 50],
    [listed |-> [A |-> 20, B |-> 20, C |-> 20, D |-> 20, SPY |-> 20, CASH |-> 20],
     end |-> 41],
    [listed |-> [A |-> 0,  B |-> 0,  C |-> 7,  D |-> 0,  SPY |-> 2,  CASH |-> 0],
     end |-> 50] >>

\* yf.download(...)['Adj Close']: NaN before a column is listed and after the
\* download's end.
RawPrice(ds, c, d) ==
    IF d \in Dates /\ d >= DataSets[ds].listed[c] /\ d <= DataSets[ds].end
    THEN ListedPrice(c, d) ELSE NaN

\* price_data = ... .dropna(how="all"): the dates on which some column has a price.
InPriceIndex(ds, d) == \E c \in Columns : ~IsNaN(RawPrice(ds, c, d))

price_data(ds, c, d) == RawPrice(ds, c, d)

\* np.log(price_data / price_data.shift(1)): the row before the first is NaN.
\* (The index is an interval of dates, so the previous row is the previous date.)
RawReturn(ds, c, d) ==
    IF InPriceIndex(ds, d) /\ InPriceIndex(ds, d - 1)
    THEN Log(RDiv(price_data(ds, c, d), price_data(ds, c, d - 1)))
    ELSE NaN

\* log_returns = ... .dropna(how="all", axis=0)
InReturnIndex(ds, d) == \E c \in Columns : ~IsNaN(RawReturn(ds, c, d))

log_returns(ds, c, d) == RawReturn(ds, c, d)

\* The rows of log_returns.loc[start:end] (label slicing includes both ends).
WindowRows(ds, start, end) == {d \in start..end : InReturnIndex(ds, d)}

\* A set of dates as the increasing sequence of the frame's index.
RECURSIVE SortedSeq(_)
SortedSeq(S) ==
    IF S = {} THEN <<>>
    ELSE LET m == CHOOSE x \in S : \A y \in S : x <= y
         IN  <<m>> \o SortedSeq(S \ {m})

\* One column over the rows, in index order.
ColumnOf(ds, c, rows) ==
    LET idx == SortedSeq(rows)
    IN  Arr([k \in 1..Len(idx) |-> log_returns(ds, c, idx[k])])

\* Series.isnull().any()
AnyNull(col) == \E k \in 1..Len(col) : IsNaN(col[k])

DropNaN(col) == SelectSeq(col, LAMBDA x : ~IsNaN(x))

\* DataFrame.mean(): per column, NaN entries skipped.
ColMean(col) == RMean(DropNaN(col))

\* DataFrame.cov(): per pair of columns over the rows where both are defined,
\* normalised by N - 1; NaN when no such row exists (and 0/0 = NaN when one does).
ColCov(x, y) ==
    LET both == {k \in 1..Len(x) : ~IsNaN(x[k]) /\ ~IsNaN(y[k])}
        idx  == SortedSeq(both)
        xs   == Arr([k \in 1..Len(idx) |-> x[idx[k]]])
        ys   == Arr([k \in 1..Len(idx) |-> y[idx[k]]])
        mx   == RMean(xs)
        my   == RMean(ys)
        prod == Arr([k \in 1..Len(idx) |-> RMul(RSub(xs[k], mx), RSub(ys[k], my))])
    IN  IF both = {} THEN NaN ELSE RDiv(RSum(prod), R(Len(idx) - 1))

\* The frame log_returns[tickers] restricted to `rows`, column by column.
Frame(ds, tickers, rows) ==
    Arr([a \in 1..Len(tickers) |-> ColumnOf(ds, tickers[a], rows)])

\* frame.mean() and frame.cov()
MeanVector(frame) == Arr([a \in 1..Len(frame) |-> ColMean(frame[a])])

CovMatrix(frame) ==
    Arr([a \in 1..Len(frame) |->
            Arr([b \in 1..Len(frame) |-> ColCov(frame[a], frame[b])])])

\* The last label of an index, and the prices of `tickers` on the last of
\* `rows` (price_data[tickers].iloc[-1], price_data[tickers].loc[index[-1]]).
LastRow(rows) == CHOOSE d \in rows : \A e \in rows : e <= d

LastPrices(ds, tickers, rows) ==
    Arr([a \in 1..Len(tickers) |-> price_data(ds, tickers[a], LastRow(rows))])

(***************************************************************************)
(* The random stream and the Cholesky factorization                        *)
(***************************************************************************)
\* numpy's global generator: a deterministic function of its state (here a
\* full-period congruential generator on 0..15).
RngNext(r) == (5 * r + 3) % 16

RECURSIVE RngAdvance(_, _)
RngAdvance(r, m) == IF m = 0 THEN r ELSE RngAdvance(RngNext(r), m - 1)

\* One standard-normal draw, as a function of the generator's state: -1, 0 or 1.
Normal(r) == (r % 3) - 1

\* np.random.normal(0, 1, size=(rows, cols)): rows*cols draws in row-major order.
DrawMatrix(r, rows, cols) ==
    Arr([t \in 1..rows |->
            Arr([k \in 1..cols |-> Normal(RngAdvance(r, (t - 1) * cols + (k - 1)))])])

\* np.linalg.cholesky(a): the lower-triangular L with L L^T = a, column by
\* column; a pivot <= 0 raises LinAlgError.  Whether a NaN pivot raises depends
\* on the LAPACK build (nanRaises); where it does not, NaN propagates into L.
RECURSIVE CholeskyFrom(_, _, _, _)
CholeskyFrom(a, j, L, nanRaises) ==
    LET n == Len(a)
    IN  IF j > n THEN [ok |-> TRUE, L |-> L]
        ELSE LET d == RSub(a[j][j], RSum(Arr([k \in 1..(j - 1) |-> RMul(L[j][k], L[j][k])])))
             IN  IF (IsNaN(d) /\ nanRaises) \/ RLeq(d, R(0))
                 THEN [ok |-> FALSE, L |-> L]
                 ELSE LET ljj == RSqrt(d)
                          col == Arr([i \in 1..n |->
                                    IF i < j THEN R(0)
                                    ELSE IF i = j THEN ljj
                                    ELSE RDiv(RSub(a[i][j],
                                                   RSum(Arr([k \in 1..(j - 1) |->
                                                                RMul(L[i][k], L[j][k])]))),
                                              ljj)])
                          L2  == Arr([i \in 1..n |->
                                    Arr([k \in 1..n |-> IF k = j THEN col[i] ELSE L[i][k]])])
                      IN  CholeskyFrom(a, j + 1, L2, nanRaises)

Cholesky(a, nanRaises) ==
    CholeskyFrom(a, 1, Arr([i \in 1..Len(a) |-> Arr([k \in 1..Len(a) |-> R(0)])]),
                 nanRaises)

(***************************************************************************)
(* The GBM path ensemble                                                   *)
(***************************************************************************)
\* a @ b for two vectors.
Dot(a, b) == RSum(Arr([k \in 1..Len(a) |-> RMul(a[k], b[k])]))

\* np.diag(cov)
Diag(cov) == Arr([a \in 1..Len(cov) |-> cov[a][a]])

\* drift = mean - 0.5 * np.diag(cov)
Drift(mean, cov) ==
    Arr([a \in 1..Len(mean) |-> RSub(mean[a], RMul(<<1, 2>>, Diag(cov)[a]))])

\* np.zeros((rows + 1, cols)): time index 0..rows, path index 1..cols.
Zeros(rows, cols) == Tab([t \in 0..rows |-> Arr([i \in 1..cols |-> R(0)])])

\* An allocation whose row 0 is left at zero.
RowZeroLeftAtZero(paths, v) == paths

\* sim_paths[0, :] = initial_value
SetInitialRow(paths, v) ==
    Tab([t \in DOMAIN paths |->
            IF t = 0 THEN Arr([i \in DOMAIN paths[t] |-> v]) ELSE paths[t]])

\* A slice that stops before the last row, `1:-1`.
PathRowsButLast(paths) == {u \in DOMAIN paths : u >= 1 /\ u + 1 \in DOMAIN paths}

\* The rows selected by the slice `1:` of sim_paths[1:, i].
PathRows(paths) == {u \in DOMAIN paths : u >= 1}

\* sim_paths[1:, i] = values, where values has one entry per simulated day.
WritePath(paths, i, values) ==
    Tab([u \in DOMAIN paths |->
            IF u \in PathRows(paths) THEN [paths[u] EXCEPT ![i] = values[u]]
            ELSE paths[u]])

\* The cells those two assignments touch.
RowZeroCells(paths) == {<<0, k>> : k \in 1..Len(paths[0])}

PathCells(paths, i) == {<<u, i>> : u \in PathRows(paths)}

\* No rescaling: the weighted prices are returned as they are.
ScaleFactorOne(initial_value, last_prices, weights) == R(1)

\* scale_factor = initial_value / (last_prices @ weights)
ScaleFactor(initial_value, last_prices, weights) ==
    RDiv(initial_value, Dot(last_prices, weights))

\* (chol @ shocks.T).T: row t holds chol applied to the t-th row of shocks.
CorrelatedShocks(chol, shocks) ==
    Arr([t \in 1..Len(shocks) |->
            Arr([a \in 1..Len(chol) |->
                    RSum(Arr([k \in 1..Len(chol) |->
                                 RMul(chol[a][k], R(shocks[t][k]))]))])])

\* np.cumprod(daily_returns, axis=0)
RECURSIVE CumProdFrom(_, _)
CumProdFrom(daily, done) ==
    IF Len(done) = Len(daily) THEN done
    ELSE LET t == Len(done) + 1
             row == IF t = 1 THEN daily[1]
                    ELSE Arr([a \in DOMAIN daily[t] |->
                                 RMul(done[t - 1][a], daily[t][a])])
         IN  CumProdFrom(daily, Append(done, row))

CumProd(daily) == CumProdFrom(daily, <<>>)

\* One iteration of the path loop of run_monte_carlo_simulation and of
\* scenario_stress_test: the portfolio values of days 1..n_days of one path.
GbmPath(drift, chol, last_prices, weights, scale_factor, shocks) ==
    LET corr  == CorrelatedShocks(chol, shocks)
        daily == Arr([t \in 1..Len(shocks) |->
                    Arr([a \in 1..Len(drift) |-> Exp(RAdd(drift[a], corr[t][a]))])])
        cum   == CumProd(daily)
        price_paths == Arr([t \in 1..Len(shocks) |->
                          Arr([a \in 1..Len(drift) |-> RMul(last_prices[a], cum[t][a])])])
    IN  Arr([t \in 1..Len(shocks) |-> RMul(Dot(price_paths[t], weights), scale_factor)])

\* The whole path loop, for i in range(n_sim), from generator state r; p holds
\* the loop's invariant operands.
RECURSIVE PathLoop(_, _, _, _)
PathLoop(paths, i, r, p) ==
    IF i > p.n_sim THEN paths
    ELSE LET n == Len(p.drift)
             shocks == DrawMatrix(r, p.n_days, n)
             values == GbmPath(p.drift, p.chol, p.last_prices, p.weights,
                               p.scale_factor, shocks)
         IN  PathLoop(WritePath(paths, i, values), i + 1,
                      RngAdvance(r, p.n_days * n), p)

(***************************************************************************)
(* Order statistics                                                        *)
(***************************************************************************)
RECURSIVE Insert(_, _)
Insert(x, sorted) ==
    IF sorted = <<>> THEN <<x>>
    ELSE IF RLeq(x, Head(sorted)) THEN <<x>> \o sorted
    ELSE <<Head(sorted)>> \o Insert(x, Tail(sorted))

RECURSIVE Sorted(_)
Sorted(s) == IF s = <<>> THEN <<>> ELSE Insert(Head(s), Sorted(Tail(s)))

\* np.percentile(values, q) with the default linear interpolation between the
\* two nearest order statistics; NaN if a value is NaN.  (For no value at all
\* see EmptyPercentilePolicies.)
Percentile(values, q) ==
    IF Len(values) = 0 \/ AnyNull(values) THEN NaN
    ELSE LET x    == Sorted(values)
             h    == RMul(R(Len(values) - 1), RDiv(q, R(100)))
             lo   == h[1] \div h[2]
             frac == RSub(h, R(lo))
         IN  IF frac[1] = 0 THEN x[lo + 1]
             ELSE RAdd(x[lo + 1], RMul(frac, RSub(x[lo + 2], x[lo + 1])))

\* np.mean(values < threshold): the fraction of values strictly below.
FractionBelow(values, threshold) ==
    RDiv(R(Cardinality({k \in 1..Len(values) : RLess(values[k], threshold)})),
         R(Len(values)))

(***************************************************************************)
(* Bounds of the model and the inputs enumerated                           *)
(***************************************************************************)
\* The largest path count of a request.
MaxSims == 2

\* The largest horizon (n_days) of a forward simulation request.
MaxDays == 2

\* The ticker lists of a request: one to three assets, a duplicate, a ticker
\* that is no column of the data ("ZZZ").
TickerLists ==
    { <<"A">>, <<"A", "B">>, <<"A", "C">>, <<"B", "D">>, <<"A", "B", "C">>,
      <<"A", "D", "C">>, <<"A", "A">>, <<"A", "ZZZ">>, <<"D", "A", "B">> }

Benchmarks == {"SPY", "QQQ"}

\* Weight vectors of length n: equal weights, all on the first asset, and one
\* with a negative weight that does not sum to 1 for n < 3.
EqualWeights(n) == Arr([a \in 1..n |-> <<1, n>>])

FirstOnly(n) == Arr([a \in 1..n |-> IF a = 1 THEN R(1) ELSE R(0)])

WeightsOf(n) ==
    { EqualWeights(n),
      Arr([a \in 1..n |-> IF a = 1 THEN R(2) ELSE <<-1, 2>>]) }

\* The ticker lists of a direct call of run_monte_carlo_simulation.
McTickerLists ==
    { <<"A">>, <<"A", "B">>, <<"A", "D", "C">>, <<"A", "A">>, <<"CASH">> }

\* The data sets of the endpoints' requests: their periods start at date 20,
\* from where data sets 1 and 3 agree.
EndpointDataSets == {2, 3}

\* The ticker lists of an endpoint's request, as typed: nothing, a blank, a
\* blank among tickers, lower case and padding, an unlisted symbol.
RequestTickerLists ==
    { <<>>, <<" ">>, <<"A", " ">>, <<"a", " B">>, <<"A">>, <<"B", "D">>,
      <<"A", "D", "C">>, <<"A", "A">>, <<"A", "ZZZ">> }

\* The periods [first date, last date] of an endpoint's request: a block with
\* the date before it, two dates, one date, dates past the end of a download.
RequestPeriods == { <<20, 25>>, <<40, 41>>, <<41, 41>>, <<45, 50>> }

\* The ticker lists and periods of the Heston requests: a period of WINDOW
\* returns, of five, of one, of none, and one past the end of a download.
HestonTickerLists ==
    { <<>>, <<"A", " ">>, <<"A">>, <<"a", " B">>, <<"B", "A">>, <<"A", "ZZZ">> }

HestonPeriods == { <<20, 41>>, <<36, 41>>, <<40, 41>>, <<41, 41>>, <<45, 50>> }

InitialValues == {R(100), R(64)}

RngStates == {0, 6}

\* The date ranges [start, end] of a forward simulation request: a full block,
\* a block in which a column is listed late, one row.
ReqWindows == { <<1, 5>>, <<11, 15>>, <<41, 41>> }

\* backtester.SCENARIO_EVENTS: the ten windows in catalogue order, their
\* dates mapped onto 1..50 in calendar order (the last entry, the 2020-2021
\* rally, lies between the 2020 crash and the 2022 slowdown).
SCENARIO_EVENTS == <<
    [label |-> "1987 Black Monday",                start |-> 1,  end |-> 5],
    [label |-> "1998 LTCM/Russia Default",         start |-> 6,  end |-> 10],
    [label |-> "2000 Dot-Com Bust",                start |-> 11, end |-> 15],
    [label |-> "2008 Global Financial Crisis",     start |-> 16, end |-> 20],
    [label |-> "2011 US Debt Ceiling/Euro Crisis", start |-> 21, end |-> 25],
    [label |-> "2015-16 China/Commodities Crash",  start |-> 26, end |-> 30],
    [label |-> "2018 Q4 Rate Panic",               start |-> 31, end |-> 35],
    [label |-> "2020 COVID Crash",                 start |-> 36, end |-> 40],
    [label |-> "2022 Rate Hikes Slowdown",         start |-> 46, end |-> 50],
    [label |-> "2020-2021 Bull Rally",             start |-> 41, end |-> 45] >>

(***************************************************************************)
(* State                                                                   *)
(***************************************************************************)
VARIABLES
    req,                    \* the arguments of the call being served
    pc,                     \* its position
    rng,                    \* the state of numpy's global random generator
    scenario_events,        \* the catalogue handed to scenario_stress_test
    ev,                     \* the index of the next catalogue entry
    loc,                    \* the locals computed before a path loop
    i,                      \* the path loop's index (1-based)
    sim_paths,              \* the GBM ensemble last allocated
    scenarioResults,        \* scenario_stress_test's first output list
    scenarioDistributions,  \* its second output list
    stdout,                 \* the lines printed
    outcome,                \* what the caller has received
    heston_params,          \* ticker -> (kappa, theta, xi, rho)
    calibration,            \* per calibrated asset, how the optimizer call ended
    S,                      \* the Heston price tensor S[t][path][asset]
    V,                      \* the Heston variance tensor V[t][path][asset]
    t,                      \* the Heston time loop's index
    written                 \* the cells assigned since the ensemble was allocated

hestonVars == <<heston_params, calibration, S, V, t>>

vars == <<req, pc, rng, scenario_events, ev, loc, i, sim_paths,
          scenarioResults, scenarioDistributions, stdout, outcome,
          heston_params, calibration, S, V, t, written>>

NoPaths == <<>>

NoLocals == [none |-> TRUE]

Pending == [kind |-> "pending"]

\* Whether a matrix holds a NaN.
HasNaN(m) == \E a \in 1..Len(m) : \E b \in 1..Len(m[a]) : IsNaN(m[a][b])

\* What np.linalg.cholesky may do on this input: on a NaN input, raise or
\* not, depending on the LAPACK build.
NaNPolicies(cov) == IF HasNaN(cov) THEN BOOLEAN ELSE {TRUE}

(***************************************************************************)
(* Scenario replay: backtester.scenario_stress_test                        *)
(***************************************************************************)
\* window_returns = log_returns.loc[event["start"]:event["end"]]
EventRows(ds, event) == WindowRows(ds, event.start, event.end)

\* available_tickers = [t for t in tickers if t in window_returns.columns
\*                      and not window_returns[t].isnull().any()]
AvailableTickers(ds, tickers, rows) ==
    SelectSeq(tickers, LAMBDA u : u \in Columns /\ ~AnyNull(ColumnOf(ds, u, rows)))

\* window_bench = benchmark if benchmark in window_returns.columns else None
WindowBench(benchmark) == IF benchmark \in Columns THEN benchmark ELSE "None"

\* A guard that looks at the benchmark only.
SkippedForBenchmarkOnly(available, window_bench) == window_bench = "None"

\* if len(available_tickers) < 2 or window_bench is None: continue
EventSkipped(available, window_bench) == Len(available) < 2 \/ window_bench = "None"

\* The caller's weights of the first assets, in place of equal weights.
CallerWeights(available) == Arr([a \in 1..Len(available) |-> req.weights[a]])

\* scenario_weights = np.array([1/len(available_tickers)] * len(available_tickers))
ScenarioWeights(available) == EqualWeights(Len(available))

\* (np.exp(event_bench_returns.cumsum()) * initial_amount).iloc[-1]: cumsum
\* skips NaN entries and leaves NaN in their place.
BenchCompoundRet(col, initial_amount) ==
    IF IsNaN(col[Len(col)]) THEN NaN
    ELSE RMul(Exp(RSum(DropNaN(col))), initial_amount)

\* (x - initial_amount) / initial_amount
Drawdown(x, initial_amount) == RDiv(RSub(x, initial_amount), initial_amount)

\* The outcomes read from the first row instead of the last.
PortfolioOutcomesAtStart(paths) == paths[0]

\* portfolio_outcomes = sim_paths[-1]
PortfolioOutcomes(paths) == paths[LastRow(DOMAIN paths)]

\* The rest of the try block once the factorization has succeeded and the
\* window has a last row: the ensemble and the two entries appended.
EventBody(ds, event, rows, available, window_bench, n_sim, initial_amount, r,
          drift, chol) ==
    LET k        == Len(available)
        weights  == ScenarioWeights(available)
        sim_len  == Cardinality(rows)
        last_prices == LastPrices(ds, available, rows)
        scale_factor == ScaleFactor(initial_amount, last_prices, weights)
        paths    == PathLoop(SetInitialRow(Zeros(sim_len, n_sim), initial_amount), 1, r,
                             [n_sim |-> n_sim, n_days |-> sim_len, drift |-> drift,
                              chol |-> chol, last_prices |-> last_prices,
                              weights |-> weights, scale_factor |-> scale_factor])
        portfolio_outcomes == PortfolioOutcomes(paths)
        bench_compound_ret ==
            BenchCompoundRet(ColumnOf(ds, window_bench, rows), initial_amount)
        bench_drawdown == Drawdown(bench_compound_ret, initial_amount)
        drawdown == Arr([i_ \in 1..n_sim |->
                            Drawdown(portfolio_outcomes[i_], initial_amount)])
    IN  [sim_paths |-> paths,
         rng |-> RngAdvance(r, n_sim * sim_len * k),
         result |-> [Event |-> event.label,
                     ScenarioLength |-> sim_len,
                     StocksUsed |-> available,
                     PortfolioMeanReturn |-> RMean(drawdown),
                     BenchmarkReturn |-> bench_drawdown],
         distribution |-> [eventLabel |-> <<event.label, sim_len, k>>,
                           returns |-> drawdown,
                           portfolioMean |-> RMean(drawdown),
                           benchmark |-> bench_drawdown]]

\* An error handler that leaves the loop (break) instead of continuing.
EventRaisesAndBreaks(label, error) ==
    /\ error \in {"LinAlgError", "IndexError"}
    /\ stdout' = Append(stdout, <<"Skipping scenario", label>>)
    /\ ev' = Len(scenario_events) + 1
    /\ UNCHANGED <<rng, sim_paths, scenarioResults, scenarioDistributions>>

\* except Exception as e: print(f"Skipping scenario {label} due to error: {e}");
\* continue.  The line is recorded without the error's text.
EventRaises(label, error) ==
    /\ error \in {"LinAlgError", "IndexError"}
    /\ stdout' = Append(stdout, <<"Skipping scenario", label>>)
    /\ ev' = ev + 1
    /\ UNCHANGED <<rng, sim_paths, scenarioResults, scenarioDistributions>>

\* A loop that uses its windows up: the window just replayed is left empty,
\* its end before its start.
CatalogueConsumed(catalogue, e) ==
    [k \in DOMAIN catalogue |->
        IF k = e THEN [catalogue[k] EXCEPT !.end = catalogue[k].start - 1]
        ELSE catalogue[k]]

\* Lines 119-163: `for event in scenario_events` reads event["label"],
\* event["start"] and event["end"] and assigns to none of them: the catalogue
\* after the iteration of its entry e.
CatalogueAfter(catalogue, e) == catalogue

\* One iteration of `for event in scenario_events`.
ScenarioEvent ==
    /\ pc = "replay"
    /\ ev <= Len(scenario_events)
    /\ \E rows \in {EventRows(req.ds, scenario_events[ev])} :
       \E available \in {AvailableTickers(req.ds, req.tickers, rows)} :
         LET event == scenario_events[ev]
             window_bench == WindowBench(req.benchmark)
         IN  IF EventSkipped(available, window_bench)
             THEN /\ ev' = ev + 1
                  /\ UNCHANGED <<rng, sim_paths, scenarioResults,
                                 scenarioDistributions, stdout>>
             ELSE \E event_returns \in {Frame(req.ds, available, rows)} :
                  \E col_cov \in {CovMatrix(event_returns)} :
                  \E nanRaises \in NaNPolicies(col_cov) :
                  \E chol \in {Cholesky(col_cov, nanRaises)} :
                    IF ~chol.ok THEN EventRaises(event.label, "LinAlgError")
                    ELSE IF rows = {} THEN EventRaises(event.label, "IndexError")
                    ELSE \E b \in {EventBody(req.ds, event, rows, available, window_bench,
                                             req.n_sim, req.initial_value, rng,
                                             Drift(MeanVector(event_returns), col_cov),
                                             chol.L)} :
                           /\ rng' = b.rng
                           /\ sim_paths' = b.sim_paths
                           /\ scenarioResults' = Append(scenarioResults, b.result)
                           /\ scenarioDistributions' =
                                  Append(scenarioDistributions, b.distribution)
                           /\ ev' = ev + 1
                           /\ UNCHANGED stdout
    /\ scenario_events' = CatalogueAfter(scenario_events, ev)
    /\ UNCHANGED <<req, pc, loc, i, outcome, written>>
    /\ UNCHANGED hestonVars

\* return scenarioResults, scenarioDistributions
ScenarioReturn ==
    /\ pc = "replay"
    /\ ev > Len(scenario_events)
    /\ pc' = "done"
    /\ outcome' = [kind |-> "returned",
                   value |-> <<scenarioResults, scenarioDistributions>>]
    /\ UNCHANGED <<req, rng, scenario_events, ev, loc, i, sim_paths,
                   scenarioResults, scenarioDistributions, stdout, written>>
    /\ UNCHANGED hestonVars

(***************************************************************************)
(* Forward simulation: backtester.run_monte_carlo_simulation, as called by *)
(* calculate_metrics_and_charts with the user's period [start, end]        *)
(***************************************************************************)
\* The rows of price_data.loc[start:end].
PriceRows(ds, start, end) == {d \in start..end : InPriceIndex(ds, d)}

\* Lines 27-33: the estimates, the factorization, the allocation and row 0.
McStart ==
    /\ pc = "mc_start"
    /\ \E frame \in {Frame(req.ds, req.tickers,
                           WindowRows(req.ds, req.start, req.end))} :
       \E cov \in {CovMatrix(frame)} :
       \E nanRaises \in NaNPolicies(cov) :
       \E chol \in {Cholesky(cov, nanRaises)} :
         IF ~chol.ok
         THEN /\ pc' = "done"
              /\ outcome' = [kind |-> "raised", error |-> "LinAlgError"]
              /\ UNCHANGED <<loc, i, sim_paths, written>>
         ELSE \E last_prices \in {LastPrices(req.ds, req.tickers,
                                             PriceRows(req.ds, req.start, req.end))} :
              /\ loc' = [n_sim |-> req.n_simulations, n_days |-> req.n_days,
                         drift |-> Drift(MeanVector(frame), cov), chol |-> chol.L,
                         last_prices |-> last_prices, weights |-> req.weights,
                         scale_factor |-> ScaleFactor(req.initial_value, last_prices,
                                                      req.weights)]
              /\ sim_paths' = SetInitialRow(Zeros(req.n_days, req.n_simulations),
                                            req.initial_value)
              /\ written' = RowZeroCells(sim_paths')
              /\ i' = 1
              /\ pc' = "mc_loop"
              /\ UNCHANGED outcome
    /\ UNCHANGED <<req, rng, scenario_events, ev, scenarioResults,
                   scenarioDistributions, stdout>>
    /\ UNCHANGED hestonVars

\* Lines 34-38: one iteration of `for i in range(n_simulations)`.
McPath ==
    /\ pc = "mc_loop"
    /\ i <= req.n_simulations
    /\ \E shocks \in {DrawMatrix(rng, req.n_days, Len(req.tickers))} :
         sim_paths' = WritePath(sim_paths, i,
                                GbmPath(loc.drift, loc.chol, loc.last_prices,
                                        loc.weights, loc.scale_factor, shocks))
    /\ written' = written \cup PathCells(sim_paths, i)
    /\ rng' = RngAdvance(rng, req.n_days * Len(req.tickers))
    /\ i' = i + 1
    /\ UNCHANGED <<req, pc, scenario_events, ev, loc, scenarioResults,
                   scenarioDistributions, stdout, outcome>>
    /\ UNCHANGED hestonVars

\* Line 39: return sim_paths
McReturn ==
    /\ pc = "mc_loop"
    /\ i > req.n_simulations
    /\ pc' = "done"
    /\ outcome' = [kind |-> "returned", value |-> sim_paths]
    /\ UNCHANGED <<req, rng, scenario_events, ev, loc, i, sim_paths,
                   scenarioResults, scenarioDistributions, stdout, written>>
    /\ UNCHANGED hestonVars

(***************************************************************************)
(* POST /api/portfolio/montecarlo: main.monte_carlo_simulation             *)
(***************************************************************************)
\* ticker and isinstance(ticker, str) and ticker.strip()
IsBlank(ticker) == ticker \in {"", " "}

\* ticker.strip().upper() on the tickers enumerated.
StripUpper(ticker) ==
    CASE ticker = "a"  -> "A"
      [] ticker = " B" -> "B"
      [] OTHER         -> ticker

\* Lines 249-252: valid_tickers
ValidTickers(tickers) ==
    LET kept == SelectSeq(tickers, LAMBDA x : ~IsBlank(x))
    IN  Arr([a \in 1..Len(kept) |-> StripUpper(kept[a])])

\* yf.download(tickers_to_fetch, start, end)["Adj Close"]: a symbol that is not
\* listed comes back as a column of NaN.
AdjClose(ds, c, d) == IF c \in Columns THEN RawPrice(ds, c, d) ELSE NaN

\* price_data = ... .dropna(): the dates of the period on which every fetched
\* column has a price.
CompleteRows(ds, cols, start, end) ==
    {d \in start..end : \A c \in cols : ~IsNaN(AdjClose(ds, c, d))}

\* log_returns = np.log(price_data / price_data.shift(1)).dropna(): every row
\* of price_data but the first.
ReturnRows(rows) == {d \in rows : \E e \in rows : e < d}

\* The response of the except branch (lines 349-361), returned in place of an
\* error: empty results, zero metrics and the message "Error: <text>".
MonteCarloErrorResponse(error) ==
    [kind |-> "response", status |-> 200,
     percentiles |-> [p10 |-> <<>>, p50 |-> <<>>, p90 |-> <<>>],
     mean_path |-> <<>>, final_distribution |-> <<>>,
     var_5 |-> R(0), mean_final |-> R(0), probability_of_loss |-> R(0),
     message |-> "Error", error |-> error]

\* Lines 245-258: the three checks on the request, each raising HTTPException
\* inside the try block.
RequestRejected(tickers, weights) ==
    \/ Len(tickers) = 0
    \/ Len(ValidTickers(tickers)) = 0
    \/ Len(ValidTickers(tickers)) # Len(weights)

\* random_shocks @ chol_matrix, the factor not transposed.
ShocksChol(shocks, chol) ==
    Arr([u \in 1..Len(shocks) |->
            Arr([a \in 1..Len(chol) |->
                    RSum(Arr([k \in 1..Len(chol) |->
                                 RMul(R(shocks[u][k]), chol[k][a])]))])])

\* random_shocks @ chol_matrix.T
ShocksCholT(shocks, chol) ==
    Arr([u \in 1..Len(shocks) |->
            Arr([a \in 1..Len(chol) |->
                    RSum(Arr([k \in 1..Len(chol) |->
                                 RMul(R(shocks[u][k]), chol[a][k])]))])])

\* Lines 314-319: the scaled portfolio values of days 1..N_DAYS of one path;
\* the scale factor is computed in the loop.
EndpointPath(drift, chol, last_prices, weights, initial_value, shocks) ==
    LET corr  == ShocksCholT(shocks, chol)
        daily == Arr([u \in 1..Len(shocks) |->
                    Arr([a \in 1..Len(drift) |-> Exp(RAdd(drift[a], corr[u][a]))])])
        cum   == CumProd(daily)
        price_paths == Arr([u \in 1..Len(shocks) |->
                          Arr([a \in 1..Len(drift) |-> RMul(last_prices[a], cum[u][a])])])
        scale_factor == ScaleFactor(initial_value, last_prices, weights)
    IN  Arr([u \in 1..Len(shocks) |-> RMul(Dot(price_paths[u], weights), scale_factor)])

\* Lines 245-310: validation, download, estimates, factorization, allocation.
MonteCarloStart ==
    /\ pc = "montecarlo_start"
    /\ IF RequestRejected(req.tickers, req.weights)
       THEN /\ pc' = "done"
            /\ outcome' = MonteCarloErrorResponse("HTTPException")
            /\ UNCHANGED <<loc, i, sim_paths, written>>
       ELSE \E TICKERS \in {ValidTickers(req.tickers)} :
            \E rows \in {CompleteRows(req.ds, {TICKERS[a] : a \in 1..Len(TICKERS)}
                                               \cup {req.benchmark},
                                      req.start, req.end)} :
              IF rows = {}
              THEN /\ pc' = "done"
                   /\ outcome' = MonteCarloErrorResponse("IndexError")
                   /\ UNCHANGED <<loc, i, sim_paths, written>>
              ELSE \E frame \in {Frame(req.ds, TICKERS, ReturnRows(rows))} :
                   \E cov \in {CovMatrix(frame)} :
                   \E nanRaises \in NaNPolicies(cov) :
                   \E chol \in {Cholesky(cov, nanRaises)} :
                     IF ~chol.ok
                     THEN /\ pc' = "done"
                          /\ outcome' = MonteCarloErrorResponse("LinAlgError")
                          /\ UNCHANGED <<loc, i, sim_paths, written>>
                     ELSE /\ loc' = [tickers |-> TICKERS,
                                     drift |-> Drift(MeanVector(frame), cov),
                                     chol |-> chol.L,
                                     last_prices |-> LastPrices(req.ds, TICKERS, rows),
                                     weights |-> req.weights]
                          /\ sim_paths' = SetInitialRow(
                                             Zeros(req.n_days, req.n_simulations),
                                             req.initial_value)
                          /\ written' = RowZeroCells(sim_paths')
                          /\ i' = 1
                          /\ pc' = "montecarlo_loop"
                          /\ UNCHANGED outcome
    /\ UNCHANGED <<req, rng, scenario_events, ev, scenarioResults,
                   scenarioDistributions, stdout>>
    /\ UNCHANGED hestonVars

\* Lines 312-319: one iteration of `for i in range(N_SIMULATIONS)`.
MonteCarloPath ==
    /\ pc = "montecarlo_loop"
    /\ i <= req.n_simulations
    /\ \E shocks \in {DrawMatrix(rng, req.n_days, Len(loc.tickers))} :
         sim_paths' = WritePath(sim_paths, i,
                                EndpointPath(loc.drift, loc.chol, loc.last_prices,
                                             loc.weights, req.initial_value, shocks))
    /\ written' = written \cup PathCells(sim_paths, i)
    /\ rng' = RngAdvance(rng, req.n_days * Len(loc.tickers))
    /\ i' = i + 1
    /\ UNCHANGED <<req, pc, scenario_events, ev, loc, scenarioResults,
                   scenarioDistributions, stdout, outcome>>
    /\ UNCHANGED hestonVars

\* What np.percentile does with no value at all: depending on the numpy
\* release it returns NaN (with a warning) or raises IndexError.
EmptyPercentilePolicies(values) == IF Len(values) = 0 THEN {"nan", "raise"} ELSE {"nan"}

\* Lines 322-347: the statistics of the ensemble and the response.
MonteCarloResponse(paths, initial_value) ==
    LET n_days == LastRow(DOMAIN paths)
        final_values == paths[n_days]
        PerStep(q) == Arr([u \in 1..(n_days + 1) |-> Percentile(paths[u - 1], q)])
    IN  [kind |-> "response", status |-> 200,
         percentiles |-> [p10 |-> PerStep(R(10)), p50 |-> PerStep(R(50)),
                          p90 |-> PerStep(R(90))],
         mean_path |-> Arr([u \in 1..(n_days + 1) |-> RMean(paths[u - 1])]),
         final_distribution |-> final_values,
         var_5 |-> Percentile(final_values, R(5)),
         mean_final |-> RMean(final_values),
         probability_of_loss |-> FractionBelow(final_values, initial_value),
         message |-> "Monte Carlo simulation completed successfully.",
         error |-> "None"]

MonteCarloRespond ==
    /\ pc = "montecarlo_loop"
    /\ i > req.n_simulations
    /\ pc' = "done"
    /\ \E policy \in EmptyPercentilePolicies(sim_paths[0]) :
         outcome' = IF policy = "raise" THEN MonteCarloErrorResponse("IndexError")
                    ELSE MonteCarloResponse(sim_paths, req.initial_value)
    /\ UNCHANGED <<req, rng, scenario_events, ev, loc, i, sim_paths,
                   scenarioResults, scenarioDistributions, stdout, written>>
    /\ UNCHANGED hestonVars

(***************************************************************************)
(* POST /api/portfolio/heston: main.heston_simulation                      *)
(*                                                                         *)
(* The square roots and exponentials of the Heston recursion are not       *)
(* rational.  Its numbers are rationals on a grid of 1/Scale: sqrt and exp *)
(* round down to the grid, as does every value stored in S and V.          *)
(***************************************************************************)
Scale == 1000

\* dt = 1 / 252
TradingDays == 252

dt == <<1, TradingDays>>

SEED == 42

\* WINDOW = 21, the rolling window of the realized volatility
WINDOW == 21

\* floor(r * k / d) for 0 <= r < d and k a power of ten, digit by digit.
RECURSIVE ScaledFloor(_, _, _)
ScaledFloor(r, d, k) ==
    IF k = 1 THEN 0
    ELSE ((r * 10) \div d) * (k \div 10) + ScaledFloor((r * 10) % d, d, k \div 10)

\* x rounded down to the grid.
Fx(x) ==
    IF IsNaN(x) THEN NaN
    ELSE RNorm((x[1] \div x[2]) * Scale + ScaledFloor(x[1] % x[2], x[2], Scale), Scale)

RAbs(x) == <<Abs(x[1]), x[2]>>

RECURSIVE FloorSqrt(_, _, _)
FloorSqrt(n, lo, hi) ==
    IF lo >= hi THEN lo
    ELSE LET mid == (lo + hi + 1) \div 2
         IN  IF mid * mid <= n THEN FloorSqrt(n, mid, hi) ELSE FloorSqrt(n, lo, mid - 1)

\* np.sqrt(x) on the grid; NaN for a negative x.
FSqrt(x) ==
    IF IsNaN(x) \/ x[1] < 0 THEN NaN
    ELSE LET whole == (x[1] \div x[2]) * Scale * Scale
                          + ScaledFloor(x[1] % x[2], x[2], Scale * Scale)
         IN  RNorm(FloorSqrt(whole, 0, 46340), Scale)

\* np.exp(x) on the grid, for the small arguments of one time step:
\* 1 + x + x^2/2 + x^3/6 + x^4/24.
FExp(x) ==
    LET x1 == Fx(x)
        x2 == Fx(RDiv(RMul(x1, x1), R(2)))
        x3 == Fx(RDiv(RMul(x2, x1), R(3)))
        x4 == Fx(RDiv(RMul(x3, x1), R(4)))
    IN  RAdd(R(1), RAdd(x1, RAdd(x2, RAdd(x3, x4))))

\* ln 4 on the grid: the model's returns are in units of ln 4.
Ln4 == Fx(<<13863, 10000>>)

\* np.random.seed(s): the generator's state becomes a function of s.
Seeded(s) == s % 16

\* The response of the except branch (lines 571-584).
HestonErrorResponse(request, error) ==
    [kind |-> "response", status |-> 200, final_distribution |-> <<>>,
     var_value |-> R(0), var_dollar |-> R(0), var_percent |-> R(0),
     cvar_value |-> R(0), cvar_dollar |-> R(0),
     lower_bound |-> R(0), upper_bound |-> R(0), mean_value |-> R(0),
     initial_value |-> request.initial_value,
     confidence_level |-> request.confidence_level,
     message |-> "Error", error |-> error]

\* Lines 451, 454: the annualized mean log return of each asset.
MuVec(frame) ==
    Arr([a \in 1..Len(frame) |->
            Fx(RMul(RMul(ColMean(frame[a]), Ln4), R(TradingDays)))])

\* The position of a symbol in the lexicographic order of the symbols.
SymbolRank(c) ==
    CASE c = "A" -> 1 [] c = "B" -> 2 [] c = "C" -> 3 [] c = "CASH" -> 4
      [] c = "D" -> 5 [] c = "SPY" -> 6

\* Lines 426-439: the columns of data_raw['Close'], in the frame's order.  The
\* order is the download's, not the endpoint's: the symbols as they were asked
\* for, or sorted.  The endpoint takes mu_vec and the last prices by position
\* (lines 454, 501, 532) and the calibration returns by name (line 482).
DownloadColumns(TICKERS) ==
    LET ranks == SortedSeq({SymbolRank(TICKERS[a]) : a \in 1..Len(TICKERS)})
    IN  {TICKERS} \cup
        (IF Len(ranks) # Len(TICKERS) THEN {}
         ELSE {Arr([k \in 1..Len(ranks) |->
                      CHOOSE c \in Columns : SymbolRank(c) = ranks[k]])})

\* Lines 368-457: validation, the two downloads, the return statistics.
HestonStart ==
    /\ pc = "heston_start"
    /\ IF RequestRejected(req.tickers, req.weights)
       THEN /\ pc' = "done"
            /\ outcome' = HestonErrorResponse(req, "HTTPException")
            /\ UNCHANGED loc
       ELSE \E TICKERS \in {ValidTickers(req.tickers)} :
            \E cols \in {{TICKERS[a] : a \in 1..Len(TICKERS)}} :
            \E rows \in {CompleteRows(req.ds, cols, req.start, req.end)} :
              IF CompleteRows(req.ds, cols, 0, req.end) = {} \/ rows = {}
              THEN /\ pc' = "done"
                   /\ outcome' = HestonErrorResponse(req, "ValueError")
                   /\ UNCHANGED loc
              ELSE \E frame \in {Frame(req.ds, TICKERS, ReturnRows(rows))} :
                   \E columns \in DownloadColumns(TICKERS) :
                   /\ loc' = [tickers |-> TICKERS, log_returns |-> frame,
                              columns |-> columns,
                              mu_vec |-> MuVec(Frame(req.ds, columns, ReturnRows(rows))),
                              starting_prices |-> LastPrices(req.ds, columns, rows)]
                   /\ pc' = "heston_calibrate"
                   /\ UNCHANGED outcome
    /\ i' = 1
    /\ UNCHANGED <<req, rng, scenario_events, ev, sim_paths, scenarioResults,
                   scenarioDistributions, stdout, written>>
    /\ UNCHANGED hestonVars

\* The parameter set substituted when calibration raises (line 491).
DefaultParams ==
    [kappa |-> R(3), theta |-> <<1, 25>>, xi |-> <<1, 2>>, rho |-> <<-7, 10>>]

\* bounds = [(0.01, 10), (0.001, 0.5), (0.01, 2.0), (-0.99, 0.99)]
ParamBounds ==
    [kappa |-> <<<<1, 100>>, R(10)>>, theta |-> <<<<1, 1000>>, <<1, 2>>>>,
     xi |-> <<<<1, 100>>, R(2)>>, rho |-> <<<<-99, 100>>, <<99, 100>>>>]

Clip(x, bound) ==
    IF RLess(x, bound[1]) THEN bound[1] ELSE IF RLess(bound[2], x) THEN bound[2] ELSE x

\* np.var(returns): the population variance.
PopulationVariance(col) ==
    LET m == RMean(col)
    IN  RMean(Arr([k \in 1..Len(col) |-> RMul(RSub(col[k], m), RSub(col[k], m))]))

\* initial_guess = [3.0, np.var(returns) * 252, 0.5, -0.7], brought inside the
\* bounds as L-BFGS-B does with its starting point.
InitialGuess(returns) ==
    [kappa |-> R(3),
     theta |-> Clip(Fx(RMul(RMul(PopulationVariance(returns), RMul(Ln4, Ln4)),
                            R(TradingDays))), ParamBounds.theta),
     xi    |-> <<1, 2>>,
     rho   |-> <<-7, 10>>]

\* heston_loss raises when the model and the realized volatility series cannot
\* be subtracted: no return at all (v[0] of an empty array), or 2..WINDOW-1
\* returns (lengths n and 0).  With one return the loss is NaN; from WINDOW
\* returns on it is a number.
LossRaises(n) == n = 0 \/ (2 <= n /\ n < WINDOW)

\* The normal draws of the evaluations of heston_loss made before the call
\* ends: n - 1 per evaluation.
LossDraws(n, nfev) == IF n = 0 THEN 0 ELSE nfev * (n - 1)

\* An optimizer that does not keep its iterate inside the bounds.
Unprojected(x) == x

\* L-BFGS-B keeps every iterate inside the box: each coordinate of a point is
\* brought to the nearest point of its interval of `bounds` (line 485).
Projected(x) ==
    [kappa |-> Clip(x.kappa, ParamBounds.kappa), theta |-> Clip(x.theta, ParamBounds.theta),
     xi    |-> Clip(x.xi, ParamBounds.xi),       rho   |-> Clip(x.rho, ParamBounds.rho)]

\* Where the descent would lead without the box: nowhere (the starting
\* point), far above every upper bound, below the lower bounds of kappa,
\* theta and rho with xi above its upper bound.
Iterates(returns) ==
    << InitialGuess(returns),
       [kappa |-> R(20), theta |-> R(1), xi |-> R(3), rho |-> R(2)],
       [kappa |-> R(0), theta |-> <<-1, 10>>, xi |-> R(3), rho |-> R(-2)] >>

\* What scipy.optimize.minimize may return: a point inside the bounds, whether
\* it reports success, and the number of loss evaluations it made.  The loss is
\* a random function, so either flag can come with either point.
OptimizerRuns(returns) ==
    { [x |-> Projected(Iterates(returns)[1]), success |-> FALSE, nfev |-> 1],
      [x |-> Projected(Iterates(returns)[2]), success |-> TRUE,  nfev |-> 2],
      [x |-> Projected(Iterates(returns)[3]), success |-> FALSE, nfev |-> 2] }

\* Lines 476-491: one iteration of `for ticker in TICKERS`.
HestonCalibrate ==
    /\ pc = "heston_calibrate"
    /\ i <= Len(loc.tickers)
    /\ \E returns \in {DropNaN(loc.log_returns[i])} :
         IF LossRaises(Len(returns))
         THEN /\ heston_params' = (loc.tickers[i] :> DefaultParams) @@ heston_params
              /\ calibration' = Append(calibration, "raised")
              /\ rng' = RngAdvance(rng, LossDraws(Len(returns), 1))
         ELSE \E run \in OptimizerRuns(returns) :
              /\ heston_params' = (loc.tickers[i] :> run.x) @@ heston_params
              /\ calibration' = Append(calibration,
                                       IF run.success THEN "success" ELSE "no success")
              /\ rng' = RngAdvance(rng, LossDraws(Len(returns), run.nfev))
    /\ i' = i + 1
    /\ UNCHANGED <<req, pc, scenario_events, ev, loc, sim_paths, scenarioResults,
                   scenarioDistributions, stdout, outcome, S, V, t, written>>

\* np.zeros((n_days + 1, n_paths, n_assets)): time index 0..n_days.
Zeros3(n_days, n_paths, n_assets) ==
    Tab([u \in 0..n_days |->
            Arr([p \in 1..n_paths |-> Arr([a \in 1..n_assets |-> R(0)])])])

\* The time indices of a loop that stops one step early, range(1, N_DAYS_FORWARD).
StepTimesOneShort(n_days) == 1..(n_days - 1)

\* The time indices of `for t in range(1, N_DAYS_FORWARD + 1)`.
StepTimes(n_days) == 1..n_days

\* The cells of one time slice, of both tensors.
SliceCells(tensor, u) ==
    {<<name, u, p, a>> : name \in {"S", "V"}, p \in 1..Len(tensor[u]),
                         a \in 1..Len(loc.tickers)}

\* Lines 494-512: the seed, the two tensors and their slices at time 0.
HestonAllocate ==
    /\ pc = "heston_calibrate"
    /\ i > Len(loc.tickers)
    /\ rng' = Seeded(SEED)
    /\ \E n_assets \in {Len(loc.tickers)} :
         /\ S' = [Zeros3(req.n_days, req.n_paths, n_assets) EXCEPT
                    ![0] = Arr([p \in 1..req.n_paths |-> loc.starting_prices])]
         /\ V' = [Zeros3(req.n_days, req.n_paths, n_assets) EXCEPT
                    ![0] = Arr([p \in 1..req.n_paths |->
                                  Arr([a \in 1..n_assets |->
                                          heston_params[loc.tickers[a]].theta])])]
    /\ written' = SliceCells(S', 0)
    /\ t' = 1
    /\ pc' = "heston_loop"
    /\ UNCHANGED <<req, scenario_events, ev, loc, i, sim_paths, scenarioResults,
                   scenarioDistributions, stdout, outcome, heston_params,
                   calibration>>

\* A price shock made of the independent draw alone, without the volatility
\* shock of the variance update.
ZPriceOwnDraw(rho, z_vol, z_uncorr) ==
    RAdd(RMul(rho, R(z_uncorr)),
         RMul(FSqrt(RSub(R(1), RMul(rho, rho))), R(z_uncorr)))

\* Line 521: Z_price = rho * Z_vol + sqrt(1 - rho^2) * Z_uncorr
ZPrice(rho, z_vol, z_uncorr) ==
    RAdd(RMul(rho, R(z_vol)),
         RMul(FSqrt(RSub(R(1), RMul(rho, rho))), R(z_uncorr)))

\* Line 523, inside np.abs: the Euler update of the variance,
\* v + kappa * (theta - v) * dt + xi * sqrt(v * dt) * z.
EulerVariance(v, params, z_vol) ==
    RAdd(RAdd(v, RMul(RMul(params.kappa, RSub(params.theta, v)), dt)),
         RMul(RMul(params.xi, FSqrt(RMul(v, dt))), R(z_vol)))

\* The Euler update stored as it is, without the absolute value.
SignedVariance(v, params, z_vol) == Fx(EulerVariance(v, params, z_vol))

\* Line 523: the variance of one path and asset after one step.
NextVariance(v, params, z_vol) == Fx(RAbs(EulerVariance(v, params, z_vol)))

\* Line 524: the price of one path and asset after one step, from the new variance.
NextPrice(price, v_new, mu, z_price) ==
    Fx(RMul(price,
            FExp(RAdd(Fx(RMul(RSub(mu, RMul(<<1, 2>>, v_new)), dt)),
                      Fx(RMul(FSqrt(RMul(v_new, dt)), z_price))))))

\* Lines 515-524: one iteration of the time loop, over every path and asset.
HestonStep ==
    /\ pc = "heston_loop"
    /\ t \in StepTimes(req.n_days)
    /\ \E n_assets \in {Len(loc.tickers)} :
       \E Z_uncorr \in {DrawMatrix(rng, req.n_paths, n_assets)} :
       \E Z_vol \in {DrawMatrix(RngAdvance(rng, req.n_paths * n_assets),
                                req.n_paths, n_assets)} :
       \E v_new \in {Arr([p \in 1..req.n_paths |->
                        Arr([a \in 1..n_assets |->
                                NextVariance(V[t - 1][p][a],
                                             heston_params[loc.tickers[a]],
                                             Z_vol[p][a])])])} :
         /\ V' = [V EXCEPT ![t] = v_new]
         /\ S' = [S EXCEPT ![t] =
                    Arr([p \in 1..req.n_paths |->
                           Arr([a \in 1..n_assets |->
                                   NextPrice(S[t - 1][p][a], v_new[p][a],
                                             loc.mu_vec[a],
                                             ZPrice(heston_params[loc.tickers[a]].rho,
                                                    Z_vol[p][a], Z_uncorr[p][a]))])])]
         /\ rng' = RngAdvance(rng, 2 * req.n_paths * n_assets)
    /\ written' = written \cup SliceCells(S, t)
    /\ t' = t + 1
    /\ UNCHANGED <<req, pc, scenario_events, ev, loc, i, sim_paths, scenarioResults,
                   scenarioDistributions, stdout, outcome, heston_params,
                   calibration>>

\* Share counts rescaled as the GBM engine rescales its paths: the portfolio
\* at the starting prices is worth the initial value whatever the weights.
ShareCountsRescaled(weights, initial_value, last_prices) ==
    Arr([a \in 1..Len(weights) |->
            Fx(RMul(weights[a], ScaleFactor(initial_value, last_prices, weights)))])

\* Line 541: share_counts = (WEIGHTS * INITIAL_PORTFOLIO_VALUE) / last_prices_array
ShareCounts(weights, initial_value, last_prices) ==
    Arr([a \in 1..Len(weights) |->
            Fx(RDiv(RMul(weights[a], initial_value), last_prices[a]))])

\* Line 544: final_portfolio_values = final_prices.dot(share_counts)
FinalPortfolioValues(final_prices, share_counts) ==
    Arr([p \in 1..Len(final_prices) |-> Fx(Dot(final_prices[p], share_counts))])

\* The percentile taken at the confidence level itself.
PercentAtConfidence(confidence_level) == RMul(R(100), confidence_level)

\* Line 547: the percentile of the VaR, 100 * (1 - CONFIDENCE_LEVEL).
VaRPercent(confidence_level) == RMul(R(100), RSub(R(1), confidence_level))

\* Lines 547-569: the risk metrics and the response.
HestonResponse(request, final_portfolio_values) ==
    LET VaR_value == Percentile(final_portfolio_values,
                                VaRPercent(request.confidence_level))
        VaR_dollar == RSub(request.initial_value, VaR_value)
        tail == SelectSeq(final_portfolio_values, LAMBDA x : RLeq(x, VaR_value))
        CVaR_value == RMean(tail)
    IN  [kind |-> "response", status |-> 200,
         final_distribution |-> final_portfolio_values,
         var_value |-> VaR_value, var_dollar |-> VaR_dollar,
         var_percent |-> RDiv(VaR_dollar, request.initial_value),
         cvar_value |-> CVaR_value,
         cvar_dollar |-> RSub(request.initial_value, CVaR_value),
         lower_bound |-> Percentile(final_portfolio_values, R(5)),
         upper_bound |-> Percentile(final_portfolio_values, R(95)),
         mean_value |-> RMean(final_portfolio_values),
         initial_value |-> request.initial_value,
         confidence_level |-> request.confidence_level,
         message |-> "Heston simulation completed successfully with calibrated parameters.",
         error |-> "None"]

\* Lines 527-569, after the time loop.
HestonRespond ==
    /\ pc = "heston_loop"
    /\ t \notin StepTimes(req.n_days)
    /\ pc' = "done"
    /\ \E values \in {FinalPortfolioValues(
                          S[req.n_days],
                          ShareCounts(req.weights, req.initial_value,
                                      loc.starting_prices))} :
       \E policy \in EmptyPercentilePolicies(values) :
         outcome' = IF policy = "raise" THEN HestonErrorResponse(req, "IndexError")
                    ELSE HestonResponse(req, values)
    /\ UNCHANGED <<req, rng, scenario_events, ev, loc, i, sim_paths,
                   scenarioResults, scenarioDistributions, stdout, written>>
    /\ UNCHANGED hestonVars

(***************************************************************************)
(* Specification                                                           *)
(***************************************************************************)
InitReplay ==
    /\ \E ds \in DOMAIN DataSets, tickers \in TickerLists, b \in Benchmarks,
          n \in 1..MaxSims :
          \E w \in {EqualWeights(Len(tickers)), FirstOnly(Len(tickers))} :
            req = [kind |-> "replay", ds |-> ds, tickers |-> tickers, weights |-> w,
                   benchmark |-> b, n_sim |-> n, initial_value |-> R(100)]
    /\ pc = "replay"

\* calculate_metrics_and_charts reaches the call only with tickers that are
\* columns and a period that has a price row (line 48).  A period whose last
\* prices weigh to zero is left out (see RDiv).
InitMc ==
    /\ \E ds \in DOMAIN DataSets, tickers \in McTickerLists, win \in ReqWindows,
          n \in 0..MaxSims, h \in 0..MaxDays, v \in InitialValues :
          \E w \in WeightsOf(Len(tickers)) :
            /\ \A a \in 1..Len(tickers) : tickers[a] \in Columns
            /\ PriceRows(ds, win[1], win[2]) # {}
            /\ Dot(LastPrices(ds, tickers, PriceRows(ds, win[1], win[2])), w)[1] # 0
            /\ req = [kind |-> "mc", ds |-> ds, tickers |-> tickers, weights |-> w,
                      start |-> win[1], end |-> win[2], n_simulations |-> n,
                      n_days |-> h, initial_value |-> v]
    /\ pc = "mc_start"

\* A request of the Monte Carlo endpoint; its period is the first and the last
\* date of the download.
InitMonteCarlo ==
    /\ \E ds \in EndpointDataSets, tickers \in RequestTickerLists, win \in RequestPeriods,
          n \in 0..MaxSims, h \in 0..MaxDays :
          \E w \in WeightsOf(Len(tickers)) :
            /\ ~RequestRejected(tickers, w)
                 => LET rows == CompleteRows(ds, {ValidTickers(tickers)[a] :
                                                     a \in 1..Len(ValidTickers(tickers))}
                                                 \cup {"SPY"}, win[1], win[2])
                    IN  rows # {} =>
                          Dot(LastPrices(ds, ValidTickers(tickers), rows), w)[1] # 0
            /\ req = [kind |-> "montecarlo", ds |-> ds, tickers |-> tickers,
                      weights |-> w, start |-> win[1], end |-> win[2],
                      n_simulations |-> n, n_days |-> h, initial_value |-> R(100),
                      benchmark |-> "SPY"]
    /\ pc = "montecarlo_start"

\* A request of the Heston endpoint.
InitHeston ==
    /\ \E ds \in EndpointDataSets, tickers \in HestonTickerLists, win \in HestonPeriods,
          n \in 0..MaxSims, h \in 0..MaxDays :
          \E w \in {EqualWeights(Len(tickers)), FirstOnly(Len(tickers))}
                       \cup WeightsOf(Len(tickers)) :
            req = [kind |-> "heston", ds |-> ds, tickers |-> tickers,
                   weights |-> w, start |-> win[1], end |-> win[2],
                   n_paths |-> n, n_days |-> h, initial_value |-> R(10),
                   confidence_level |-> <<19, 20>>]
    /\ pc = "heston_start"

Init ==
    /\ rng \in RngStates
    /\ scenario_events = SCENARIO_EVENTS
    /\ ev = 1
    /\ loc = NoLocals
    /\ i = 1
    /\ sim_paths = NoPaths
    /\ scenarioResults = <<>>
    /\ scenarioDistributions = <<>>
    /\ stdout = <<>>
    /\ outcome = Pending
    /\ heston_params = <<>>
    /\ calibration = <<>>
    /\ S = NoPaths
    /\ V = NoPaths
    /\ t = 1
    /\ written = {}
    /\ (InitReplay \/ InitMc \/ InitMonteCarlo \/ InitHeston)

Next ==
    \/ ScenarioEvent
    \/ ScenarioReturn
    \/ McStart
    \/ McPath
    \/ McReturn
    \/ MonteCarloStart
    \/ MonteCarloPath
    \/ MonteCarloRespond
    \/ HestonStart
    \/ HestonCalibrate
    \/ HestonAllocate
    \/ HestonStep
    \/ HestonRespond

Spec == Init /\ [][Next]_vars

(***************************************************************************)
(* Properties                                                              *)
(***************************************************************************)
\* The path count and the horizon a request asks for.
RequestPaths ==
    CASE req.kind = "replay" -> req.n_sim
      [] req.kind = "heston" -> req.n_paths
      [] OTHER               -> req.n_simulations

IsForward == req.kind \in {"mc", "montecarlo"}

\* Usability of a column in a window, as the specification words it: a column
\* of the return matrix with no undefined return inside the window.
Usable(c, rows) == c \in Columns /\ \A d \in rows : ~IsNaN(log_returns(req.ds, c, d))

UsableTickers(rows) == SelectSeq(req.tickers, LAMBDA c : Usable(c, rows))

RowsOf(e) == EventRows(req.ds, scenario_events[e])

\* The positions of the entries of an output list that carry window e's label.
ResultsOf(e) ==
    {k \in 1..Len(scenarioResults) : scenarioResults[k].Event = scenario_events[e].label}

DistributionsOf(e) ==
    {k \in 1..Len(scenarioDistributions) :
        scenarioDistributions[k].eventLabel[1] = scenario_events[e].label}

\* The catalogue index of a label.
IndexOf(label) == CHOOSE e \in 1..Len(scenario_events) : scenario_events[e].label = label

\* C1: in every GBM ensemble (of run_monte_carlo_simulation, of the Monte Carlo
\* endpoint, of a replay window) built for at least one path and one day, row 0
\* holds the initial value for every path -- when allocated, while the path
\* loop runs, and in the value returned.
C1_RowZeroIsInitialValue ==
    (sim_paths # NoPaths /\ RequestPaths >= 1 /\ (IsForward => req.n_days >= 1)) =>
        /\ Len(sim_paths[0]) = RequestPaths
        /\ \A k \in 1..RequestPaths : sim_paths[0][k] = req.initial_value
        /\ (req.kind = "mc" /\ outcome.kind = "returned") =>
               \A k \in 1..RequestPaths : outcome.value[0][k] = req.initial_value

\* run_monte_carlo_simulation has returned two paths of two days whose later
\* rows have moved away from the initial value.
C1_Witness ==
    /\ req.kind = "mc" /\ outcome.kind = "returned"
    /\ req.n_simulations = 2 /\ req.n_days = 2
    /\ outcome.value[0] = <<req.initial_value, req.initial_value>>
    /\ outcome.value[1][1] # req.initial_value
    /\ outcome.value[2][2] # req.initial_value

\* C2: the GBM ensemble has n_days + 1 rows and n_simulations columns, the
\* Heston tensors S and V have n_days + 1 time slices of n_paths paths of one
\* entry per asset, and once the simulation loop has finished every cell at
\* the time indices 1..n_days has been assigned.
C2_EnsembleShapeAndCoverage ==
    /\ (IsForward /\ sim_paths # NoPaths) =>
          /\ DOMAIN sim_paths = 0..req.n_days
          /\ \A u \in 0..req.n_days : Len(sim_paths[u]) = req.n_simulations
          /\ (pc = "done" \/ i > req.n_simulations) =>
                \A u \in 1..req.n_days, k \in 1..req.n_simulations : <<u, k>> \in written
    /\ (req.kind = "heston" /\ S # NoPaths) =>
          /\ DOMAIN S = 0..req.n_days /\ DOMAIN V = 0..req.n_days
          /\ \A u \in 0..req.n_days :
                /\ Len(S[u]) = req.n_paths /\ Len(V[u]) = req.n_paths
                /\ \A p \in 1..req.n_paths :
                      /\ Len(S[u][p]) = Len(loc.tickers)
                      /\ Len(V[u][p]) = Len(loc.tickers)
          /\ (pc = "done" \/ t > req.n_days) =>
                \A u \in 1..req.n_days, p \in 1..req.n_paths, a \in 1..Len(loc.tickers) :
                    <<"S", u, p, a>> \in written /\ <<"V", u, p, a>> \in written

\* A Heston request of two paths, two days and two assets has been answered,
\* its last price slice differing from its first.
C2_Witness ==
    /\ req.kind = "heston" /\ pc = "done" /\ outcome.error = "None"
    /\ req.n_paths = 2 /\ req.n_days = 2 /\ Len(loc.tickers) = 2
    /\ S[2][1] # S[0][1]
    /\ V[2][2] # V[0][2]

\* C3 (as claimed): a forward GBM or Heston request with path count 0 or
\* horizon 0 allocates no ensemble and ends in an error, never in a returned
\* ensemble or a success response.
C3_ZeroSizeIsRejected ==
    (req.kind \in {"mc", "montecarlo", "heston"} /\ (RequestPaths = 0 \/ req.n_days = 0)) =>
        /\ sim_paths = NoPaths
        /\ S = NoPaths
        /\ pc = "done" =>
              \/ outcome.kind = "raised"
              \/ outcome.kind = "response" /\ outcome.error # "None"

\* C4: in scenario replay, the assets reported for a window are exactly the
\* requested tickers that are usable in it, at least two of them; a window
\* with fewer than two usable assets has no entry in either list, so the lists
\* are shorter than the number of windows visited by at least the number of
\* such windows.
C4_UnusableAssetsExcluded ==
    req.kind = "replay" =>
        /\ \A k \in 1..Len(scenarioResults) :
              LET rows == RowsOf(IndexOf(scenarioResults[k].Event))
              IN  /\ scenarioResults[k].StocksUsed = UsableTickers(rows)
                  /\ Len(scenarioResults[k].StocksUsed) >= 2
        /\ LET few == {e \in 1..(ev - 1) : Len(UsableTickers(RowsOf(e))) < 2}
           IN  /\ \A e \in few : ResultsOf(e) = {} /\ DistributionsOf(e) = {}
               /\ Len(scenarioResults) <= (ev - 1) - Cardinality(few)
               /\ Len(scenarioDistributions) <= (ev - 1) - Cardinality(few)

\* A replay has returned in which one window was dropped for having fewer
\* than two usable assets and another was reported without an asset that has
\* an undefined return in it.
C4_Witness ==
    /\ req.kind = "replay" /\ pc = "done"
    /\ \E e \in 1..Len(scenario_events) :
          Len(UsableTickers(RowsOf(e))) < 2 /\ RowsOf(e) # {}
    /\ \E k \in 1..Len(scenarioResults) :
          /\ Len(scenarioResults[k].StocksUsed) < Len(req.tickers)
          /\ \A a \in 1..Len(req.tickers) : req.tickers[a] \in Columns

\* C5 (as claimed): a window in which the benchmark is unusable -- no column
\* of the return matrix, or with an undefined return inside the window -- has
\* no entry in either output list.
C5_UnusableBenchmarkSkipped ==
    req.kind = "replay" =>
        \A e \in 1..(ev - 1) :
            ~Usable(req.benchmark, RowsOf(e)) =>
                ResultsOf(e) = {} /\ DistributionsOf(e) = {}

\* C6 (as claimed): an error raised while simulating (a failed factorization,
\* a window or period without data) is never followed by a normal return: a
\* replay that printed a "Skipping scenario ... due to error" line does not
\* return its lists, and an endpoint in which an error was raised does not
\* answer with a response object.
C6_FatalErrorsSurface ==
    /\ (req.kind = "replay" /\ outcome.kind = "returned") => stdout = <<>>
    /\ outcome.kind = "response" =>
          outcome.error \notin {"LinAlgError", "IndexError", "ValueError"}

\* The state part of C7: the two lists have the same length, their k-th
\* entries describe the same window, entries follow catalogue order, every
\* window visited has one entry in each list unless it was skipped (fewer than
\* two available assets, no benchmark column, or an error printed for it), in
\* which case it has none; until it has returned the call is in its loop, at
\* a catalogue entry or just past the last one (where the loop's step and the
\* return are the steps it can take), and it returns both lists after
\* visiting the whole catalogue.
C7_OneEntryPerWindow ==
    req.kind = "replay" =>
    /\ Len(scenarioResults) = Len(scenarioDistributions)
    /\ \A k \in 1..Len(scenarioResults) :
          /\ scenarioDistributions[k].eventLabel =
                 <<scenarioResults[k].Event, scenarioResults[k].ScenarioLength,
                   Len(scenarioResults[k].StocksUsed)>>
          /\ IndexOf(scenarioResults[k].Event) < ev
          /\ \A m \in 1..(k - 1) :
                IndexOf(scenarioResults[m].Event) < IndexOf(scenarioResults[k].Event)
    /\ \A e \in 1..(ev - 1) :
          LET skipped == \/ Len(UsableTickers(RowsOf(e))) < 2
                         \/ req.benchmark \notin Columns
                         \/ \E k \in 1..Len(stdout) :
                               stdout[k] = <<"Skipping scenario", scenario_events[e].label>>
          IN  /\ Cardinality(ResultsOf(e)) = IF skipped THEN 0 ELSE 1
              /\ Cardinality(DistributionsOf(e)) = IF skipped THEN 0 ELSE 1
    /\ ev \in 1..(Len(scenario_events) + 1)
    /\ pc \in {"replay", "done"}
    /\ pc = "done" =>
          /\ ev = Len(scenario_events) + 1
          /\ outcome = [kind |-> "returned",
                        value |-> <<scenarioResults, scenarioDistributions>>]

\* The step part of C7: whatever happens in a window -- reported, skipped, or
\* an error printed -- the next step is at the following window, and the only
\* other step is the return after the last window.
C7_NextWindowOrReturn ==
    req.kind = "replay" =>
        \/ pc' = "replay" /\ ev' = ev + 1 /\ outcome' = Pending
        \/ pc' = "done" /\ ev = Len(scenario_events) + 1 /\ outcome'.kind = "returned"

\* C7: scenario replay treats an unusable window as a skip and not as a
\* failure: processing continues with the following windows up to the return,
\* and the output has one entry per window that was not skipped, in catalogue
\* order, the two lists agreeing entry by entry.
C7_ReplaySkipsAndReturns ==
    /\ []C7_OneEntryPerWindow
    /\ [][C7_NextWindowOrReturn]_vars

\* A replay has returned after skipping its first window, which has rows but
\* fewer than two usable assets, and reporting at least two later windows.
C7_Witness ==
    /\ req.kind = "replay" /\ outcome.kind = "returned"
    /\ Len(UsableTickers(RowsOf(1))) < 2 /\ RowsOf(1) # {}
    /\ ResultsOf(1) = {}
    /\ Len(outcome.value[1]) >= 2
    /\ Len(outcome.value[2]) = Len(outcome.value[1])

\* C8: every reported window was simulated over as many days as the window has
\* return rows and with n_sim paths: its 'Scenario Length (days)' is the
\* window's row count, its distribution has n_sim entries, and the entries of
\* the window reported last are the relative changes of the ensemble's last
\* row, the ensemble having one row per day after row 0 and n_sim columns.
C8_WindowHorizonAndPathCount ==
    req.kind = "replay" =>
        /\ \A k \in 1..Len(scenarioResults) :
              /\ scenarioResults[k].ScenarioLength =
                     Cardinality(RowsOf(IndexOf(scenarioResults[k].Event)))
              /\ Len(scenarioDistributions[k].returns) = req.n_sim
        /\ scenarioResults # <<>> =>
              LET n    == Len(scenarioResults)
                  days == scenarioResults[n].ScenarioLength
              IN  /\ DOMAIN sim_paths = 0..days
                  /\ \A u \in 0..days : Len(sim_paths[u]) = req.n_sim
                  /\ \A k \in 1..req.n_sim :
                        scenarioDistributions[n].returns[k] =
                            RDiv(RSub(sim_paths[days][k], req.initial_value),
                                 req.initial_value)

\* A replay with two paths has reported a five-day window whose two outcomes
\* differ from each other and from no change at all.
C8_Witness ==
    /\ req.kind = "replay" /\ req.n_sim = 2
    /\ scenarioResults # <<>>
    /\ LET n == Len(scenarioResults)
       IN  /\ scenarioResults[n].ScenarioLength = 5
           /\ scenarioDistributions[n].returns[1] # scenarioDistributions[n].returns[2]
           /\ scenarioDistributions[n].returns[1] # R(0)
           /\ ~IsNaN(scenarioDistributions[n].returns[1])

\* C9 (as claimed): an asset whose optimizer call raised or ended without
\* success carries the default parameter set.
C9_FailedCalibrationUsesDefaults ==
    req.kind = "heston" =>
        \A a \in 1..Len(calibration) :
            calibration[a] \in {"raised", "no success"} =>
                heston_params[loc.tickers[a]] = DefaultParams

\* C10 (as claimed): when the default parameters were substituted for an
\* asset, the response of the Heston endpoint carries a per-asset
\* calibration-degraded flag that is set for that asset.
C10_DegradedIsReported ==
    (req.kind = "heston" /\ outcome.kind = "response" /\ outcome.error = "None") =>
        \A a \in 1..Len(calibration) :
            calibration[a] = "raised" =>
                /\ "calibration_degraded" \in DOMAIN outcome
                /\ outcome.calibration_degraded[loc.tickers[a]]

\* Whether lo <= x <= hi.
Within(x, lo, hi) == RLeq(lo, x) /\ RLeq(x, hi)

\* C11: every Heston parameter set the path simulator reads has kappa > 0,
\* theta >= 0, xi > 0 and rho in [-1, 1]; a set that came from the optimizer
\* lies in [0.01, 10] x [0.001, 0.5] x [0.01, 2] x [-0.99, 0.99], a set that
\* came from the fallback is (3, 0.04, 0.5, -0.7); and when the tensors are
\* allocated every asset of the request has its set.
C11_ParametersWithinBounds ==
    req.kind = "heston" =>
        /\ \A a \in 1..Len(calibration) :
              LET p == heston_params[loc.tickers[a]]
              IN  /\ RLess(R(0), p.kappa) /\ RLeq(R(0), p.theta) /\ RLess(R(0), p.xi)
                  /\ Within(p.rho, R(-1), R(1))
                  /\ calibration[a] # "raised" =>
                        /\ Within(p.kappa, <<1, 100>>, R(10))
                        /\ Within(p.theta, <<1, 1000>>, <<1, 2>>)
                        /\ Within(p.xi, <<1, 100>>, R(2))
                        /\ Within(p.rho, <<-99, 100>>, <<99, 100>>)
                  /\ calibration[a] = "raised" =>
                        p = [kappa |-> R(3), theta |-> <<1, 25>>,
                             xi |-> <<1, 2>>, rho |-> <<-7, 10>>]
        /\ S # NoPaths =>
              /\ Len(calibration) = Len(loc.tickers)
              /\ \A a \in 1..Len(loc.tickers) : loc.tickers[a] \in DOMAIN heston_params

\* A Heston request of two assets has been simulated for two days and
\* answered, one asset's descent having left the box above and the other's
\* below: their sets sit on the upper and on the lower bounds.
C11_Witness ==
    /\ req.kind = "heston" /\ pc = "done" /\ outcome.error = "None"
    /\ req.n_days = 2 /\ req.n_paths >= 1
    /\ Len(calibration) = 2
    /\ heston_params[loc.tickers[1]].kappa = R(10)
    /\ heston_params[loc.tickers[2]].kappa = <<1, 100>>
    /\ heston_params[loc.tickers[2]].rho = <<-99, 100>>

\* C12 (as claimed): a forward GBM or Heston request whose weights do not sum
\* to 1, or one of whose weights is negative, allocates no ensemble and ends
\* in an error, never in a returned ensemble or a success response.
C12_BadWeightsRejected ==
    (/\ req.kind \in {"mc", "montecarlo", "heston"}
     /\ \/ RSum(req.weights) # R(1)
        \/ \E a \in 1..Len(req.weights) : RLess(req.weights[a], R(0))) =>
        /\ sim_paths = NoPaths
        /\ S = NoPaths
        /\ pc = "done" =>
              \/ outcome.kind = "raised"
              \/ outcome.kind = "response" /\ outcome.error # "None"

\* Whether v sits at rank h (counted from 0) of a sample: fewer than h + 1
\* values lie strictly below it and fewer than n - h strictly above it, which
\* holds of any interpolation between the order statistics around rank h.
AtRank(v, values, h) ==
    LET below == Cardinality({k \in 1..Len(values) : RLess(values[k], v)})
        above == Cardinality({k \in 1..Len(values) : RLess(v, values[k])})
    IN  RLess(R(below - 1), h) /\ RLess(h, R(Len(values) - above))

\* C13: the Heston response's var_value is the 100 * (1 - confidence_level)
\* percentile of its final portfolio values, the Monte Carlo response's var_5
\* the 5th percentile of the ensemble's last row, which is its final
\* distribution; for a sample of defined values each sits at rank
\* (n - 1) * (1 - c) of the sample, with c = 0.95 for var_5.
C13_VaRIsTheQuantile ==
    (outcome.kind = "response" /\ outcome.error = "None") =>
        LET values == outcome.final_distribution
            n      == Len(values)
        IN  /\ req.kind = "heston" =>
                 LET c == req.confidence_level
                 IN  /\ outcome.var_value =
                            Percentile(values, RMul(R(100), RSub(R(1), c)))
                     /\ (n > 0 /\ ~AnyNull(values)) =>
                            AtRank(outcome.var_value, values,
                                   RMul(R(n - 1), RSub(R(1), c)))
            /\ req.kind = "montecarlo" =>
                 /\ values = sim_paths[req.n_days]
                 /\ outcome.var_5 = Percentile(values, R(5))
                 /\ (n > 0 /\ ~AnyNull(values)) =>
                        AtRank(outcome.var_5, values, RMul(R(n - 1), <<1, 20>>))

\* A Heston request of two paths has been answered with a VaR strictly
\* between its two final values, nearer to the lower one.
C13_Witness ==
    /\ req.kind = "heston" /\ outcome.kind = "response" /\ outcome.error = "None"
    /\ Len(outcome.final_distribution) = 2
    /\ LET lo == Sorted(outcome.final_distribution)[1]
           hi == Sorted(outcome.final_distribution)[2]
       IN  /\ RLess(lo, outcome.var_value)
           /\ RLess(outcome.var_value, RDiv(RAdd(lo, hi), R(2)))

\* C14 (as claimed): for every non-empty sample of final portfolio values of
\* a Heston response, some value is at or below the VaR threshold, cvar_value
\* is the mean of the values at or below it, cvar_value <= var_value and
\* cvar_dollar >= var_dollar.
C14_CVaRAtMostVaR ==
    (/\ req.kind = "heston" /\ outcome.kind = "response" /\ outcome.error = "None"
     /\ outcome.final_distribution # <<>>) =>
        LET tail == SelectSeq(outcome.final_distribution,
                              LAMBDA x : RLeq(x, outcome.var_value))
        IN  /\ tail # <<>>
            /\ outcome.cvar_value = RMean(tail)
            /\ RLeq(outcome.cvar_value, outcome.var_value)
            /\ RLeq(outcome.var_dollar, outcome.cvar_dollar)

C16_ConstantAssetPathsAreFlat ==
    (req.kind = "mc" /\ Len(req.tickers) = 1 /\ pc = "done") =>
        LET frame == Frame(req.ds, req.tickers, WindowRows(req.ds, req.start, req.end))
        IN  (MeanVector(frame) = <<R(0)>> /\ CovMatrix(frame) = <<<<R(0)>>>>) =>
                /\ outcome.kind = "returned"
                /\ \A u \in DOMAIN outcome.value :
                      \A k \in 1..Len(outcome.value[u]) :
                          outcome.value[u][k] = req.initial_value

\* The step part of C17: a step of a request leaves the process-wide
\* generator as it found it (its draws come from a stream of its own), and an
\* ensemble returned by run_monte_carlo_simulation is the one the call would
\* have built from any other state earlier requests may have left the
\* generator in.
C17_StepKeepsGenerator ==
    /\ rng' = rng
    /\ (req.kind = "mc" /\ outcome'.kind = "returned") =>
          \A r \in RngStates :
              outcome'.value =
                  PathLoop(SetInitialRow(Zeros(req.n_days, req.n_simulations),
                                         req.initial_value), 1, r, loc)

\* C17 (as claimed): simulation requests share no mutable state: no request
\* writes the state of the random generator that a later request reads, and
\* what a request draws does not depend on the requests served before it.
C17_RequestsShareNoState == [][C17_StepKeepsGenerator]_vars

\* The return rows of a request's estimate that are valid for every asset in
\* `tickers`: for a direct call and a replay window the rows of log_returns
\* in the range with every asset's return defined, for the endpoint the
\* return rows of its own download.
ValidReturnRows(tickers, start, end) ==
    IF req.kind = "montecarlo"
    THEN ReturnRows(CompleteRows(req.ds, {tickers[a] : a \in 1..Len(tickers)}
                                             \cup {req.benchmark}, start, end))
    ELSE {d \in WindowRows(req.ds, start, end) :
             \A a \in 1..Len(tickers) : Usable(tickers[a], {d})}

\* C18 (as claimed): when fewer than two valid return rows remain for the
\* assets of an estimate, or one of them has no data, the estimate fails: no
\* ensemble is built from it, a direct call or an endpoint request ends in an
\* error, and a replay window has no entry in the output.
C18_TooFewRowsIsAnError ==
    /\ (/\ req.kind = "mc"
        /\ Cardinality(ValidReturnRows(req.tickers, req.start, req.end)) < 2) =>
           /\ sim_paths = NoPaths
           /\ pc = "done" => outcome.kind = "raised"
    /\ (/\ req.kind = "montecarlo" /\ ~RequestRejected(req.tickers, req.weights)
        /\ Cardinality(ValidReturnRows(ValidTickers(req.tickers),
                                       req.start, req.end)) < 2) =>
           /\ sim_paths = NoPaths
           /\ pc = "done" => outcome.error # "None"
    /\ req.kind = "replay" =>
           \A k \in 1..Len(scenarioResults) :
               LET e == scenario_events[IndexOf(scenarioResults[k].Event)]
               IN  Cardinality(ValidReturnRows(scenarioResults[k].StocksUsed,
                                               e.start, e.end)) >= 2

\* The state part of C19: while a forward GBM ensemble exists, the loop index
\* is at most one past the path count, the cells assigned so far are row 0
\* and every day 1..n_days of exactly the paths before the index (no path is
\* partly filled, none is skipped), and the call ends only with the index one
\* past the last path, returning the ensemble as it stands.
C19_PathsFilledInOrder ==
    (IsForward /\ sim_paths # NoPaths) =>
        /\ i \in 1..(req.n_simulations + 1)
        /\ written = {<<0, k>> : k \in 1..req.n_simulations}
                        \cup {<<u, k>> : u \in 1..req.n_days, k \in 1..(i - 1)}
        /\ pc \in {"mc_loop", "montecarlo_loop", "done"}
        /\ pc = "done" =>
              /\ i = req.n_simulations + 1
              /\ req.kind = "mc" => outcome = [kind |-> "returned", value |-> sim_paths]

\* The step part of C19: a step taken inside the path loop is one whole
\* iteration -- the index advances by one, n_days draws per asset are
\* consumed, the ensemble keeps its shape -- unless the index is past the last
\* path, where the only step is the one that ends the call.
C19_WholeIterationOrReturn ==
    (IsForward /\ pc \in {"mc_loop", "montecarlo_loop"}) =>
        \/ /\ i <= req.n_simulations
           /\ i' = i + 1 /\ pc' = pc /\ outcome' = outcome
           /\ DOMAIN sim_paths' = DOMAIN sim_paths
           /\ rng' = RngAdvance(rng, req.n_days * Len(loc.drift))
        \/ /\ i = req.n_simulations + 1
           /\ pc' = "done" /\ sim_paths' = sim_paths /\ rng' = rng

\* C19: GBM simulation has no early termination: the path loop runs exactly
\* n_simulations iterations, each simulating all n_days steps of one path,
\* and no path is left partly filled or skipped when the call returns.
C19_NoEarlyTermination ==
    /\ []C19_PathsFilledInOrder
    /\ [][C19_WholeIterationOrReturn]_vars

\* run_monte_carlo_simulation has returned an ensemble of two paths of two
\* days, every cell of which was assigned, after two iterations.
C19_Witness ==
    /\ req.kind = "mc" /\ outcome.kind = "returned"
    /\ req.n_simulations = 2 /\ req.n_days = 2
    /\ i = 3
    /\ {<<u, k>> : u \in 1..2, k \in 1..2} \subseteq written
    /\ outcome.value[2][1] # outcome.value[2][2]

\* C20: in the Heston path simulator every entry of the variance tensor is a
\* number >= 0 in every state -- as allocated, at time 0, where it is the
\* asset's theta, and after every step -- so that the square roots of
\* V[t-1] * dt and V[t] * dt are taken of non-negative numbers and are defined.
C20_VarianceIsNonNegative ==
    (req.kind = "heston" /\ V # NoPaths) =>
        \A u \in DOMAIN V : \A p \in 1..Len(V[u]) : \A a \in 1..Len(V[u][p]) :
            /\ RLeq(R(0), V[u][p][a])
            /\ RLeq(R(0), RMul(V[u][p][a], dt))
            /\ ~IsNaN(FSqrt(RMul(V[u][p][a], dt)))
            /\ u = 0 => /\ V[u][p][a] = heston_params[loc.tickers[a]].theta
                        /\ RLeq(R(0), heston_params[loc.tickers[a]].theta)

\* The time loop has made a step in which, for some path and asset, the Euler
\* update of the variance was negative and its absolute value was stored.
C20_Witness ==
    /\ req.kind = "heston" /\ pc = "heston_loop" /\ t >= 2
    /\ \E u \in 1..(t - 1) : \E p \in 1..req.n_paths : \E a \in 1..Len(loc.tickers) :
          LET n     == req.n_paths * Len(loc.tickers)
              r     == RngAdvance(Seeded(SEED), 2 * (u - 1) * n)
              Z_vol == DrawMatrix(RngAdvance(r, n), req.n_paths, Len(loc.tickers))
              e     == EulerVariance(V[u - 1][p][a], heston_params[loc.tickers[a]],
                                     Z_vol[p][a])
          IN  /\ RLess(e, R(0))
              /\ V[u][p][a] = Fx(RNeg(e))
              /\ RLess(R(0), V[u][p][a])

\* The last row of the period's price frame of a Heston request.
HestonLastRow ==
    LastRow(CompleteRows(req.ds, {loc.tickers[a] : a \in 1..Len(loc.tickers)},
                         req.start, req.end))

\* C21: at time 0 of the Heston simulation, for every path, each asset's
\* variance is that asset's own theta and each asset's price is that asset's
\* last observed price; the slice at time 0 is the same for every path, and no
\* random number is drawn between the seed and the first step.
C21_TimeZeroIsThetaAndLastPrice ==
    (req.kind = "heston" /\ V # NoPaths) =>
        /\ \A p \in 1..req.n_paths : \A a \in 1..Len(loc.tickers) :
              /\ V[0][p][a] = heston_params[loc.tickers[a]].theta
              /\ S[0][p][a] = price_data(req.ds, loc.tickers[a], HestonLastRow)
              /\ V[0][p] = V[0][1] /\ S[0][p] = S[0][1]
        /\ (pc = "heston_loop" /\ t = 1) => rng = Seeded(SEED)

\* The tickers of the request are not in the order of the downloaded columns:
\* at time 0 the first asset has the last price of the second.
C21_PriceOfAnotherAsset ==
    ~ /\ req.kind = "heston" /\ req.tickers = <<"B", "A">> /\ req.n_paths >= 1
      /\ V # NoPaths
      /\ S[0][1][1] = price_data(req.ds, "A", HestonLastRow)
      /\ S[0][1][1] # price_data(req.ds, "B", HestonLastRow)
      /\ V[0][1][1] = heston_params["B"].theta

\* One iteration of the Heston time loop, as the recurrence is stated: with
\* Z_uncorr drawn before Z_vol, for every path p and asset a
\*   V[t] = |V[t-1] + kappa (theta - V[t-1]) dt + xi sqrt(V[t-1] dt) Z_vol|
\*   S[t] = S[t-1] exp((mu - V[t]/2) dt + sqrt(V[t] dt) Z_price)
\*   Z_price = rho Z_vol + sqrt(1 - rho^2) Z_uncorr
\* from the values of the same path and asset at t - 1 and the new V[t]; every
\* other time slice is left as it was, and t advances by one.
C22_StepIsTheRecurrence ==
    (req.kind = "heston" /\ pc = "heston_loop" /\ pc' = "heston_loop") =>
        \E n \in {req.n_paths * Len(loc.tickers)} :
        \E Z_uncorr \in {DrawMatrix(rng, req.n_paths, Len(loc.tickers))} :
        \E Z_vol \in {DrawMatrix(RngAdvance(rng, n), req.n_paths, Len(loc.tickers))} :
        \E v_old \in {V[t - 1]} : \E v_new \in {V'[t]} :
        \E s_old \in {S[t - 1]} : \E s_new \in {S'[t]} :
            /\ t \in 1..req.n_days /\ t' = t + 1
            /\ \A u \in (DOMAIN V) \ {t} : V'[u] = V[u] /\ S'[u] = S[u]
            /\ \A p \in 1..req.n_paths : \A a \in 1..Len(loc.tickers) :
                 \E params \in {heston_params[loc.tickers[a]]} :
                 \E z_price \in {RAdd(RMul(params.rho, R(Z_vol[p][a])),
                                      RMul(FSqrt(RSub(R(1), RMul(params.rho, params.rho))),
                                           R(Z_uncorr[p][a])))} :
                 \E v \in {Fx(RAbs(EulerVariance(v_old[p][a], params, Z_vol[p][a])))} :
                     /\ v_new[p][a] = v
                     /\ s_new[p][a] =
                          Fx(RMul(s_old[p][a],
                                  FExp(RAdd(Fx(RMul(RSub(loc.mu_vec[a],
                                                         RMul(<<1, 2>>, v)), dt)),
                                            Fx(RMul(FSqrt(RMul(v, dt)), z_price))))))

\* While the time loop runs, the slices 0..t-1 are the ones assigned and t is
\* the next one: the loop starts at t = 1 and has not passed the horizon.
C22_LoopIndexInOrder ==
    (req.kind = "heston" /\ pc = "heston_loop") =>
        /\ t \in 1..(req.n_days + 1)
        /\ written = UNION {SliceCells(S, u) : u \in 0..(t - 1)}

\* C22: within a Heston path the recurrence is sequential and ordered: the
\* steps run for t = 1, 2, ..., horizon in increasing order; step t computes
\* V[t] from V[t-1] and then S[t] from S[t-1] and the new V[t]; the volatility
\* shock of the variance update is the draw that enters Z_price; no step reads
\* a later time slice or another path.
C22_RecurrenceIsSequential ==
    /\ []C22_LoopIndexInOrder
    /\ [][C22_StepIsTheRecurrence]_vars

\* Two steps have been made for two paths, the second step's volatility shock
\* differs from its independent draw for the first path, and the two paths
\* have different prices.
C22_Witness ==
    /\ req.kind = "heston" /\ pc = "heston_loop" /\ t = 3 /\ req.n_paths = 2
    /\ S[2][1] # S[2][2]
    /\ V[2][1] # V[1][1]
    /\ S[2][1] # S[1][1]
    /\ \E a \in 1..Len(loc.tickers) :
          LET n  == req.n_paths * Len(loc.tickers)
              r  == RngAdvance(Seeded(SEED), 2 * n)
          IN  DrawMatrix(r, 2, Len(loc.tickers))[1][a]
                 # DrawMatrix(RngAdvance(r, n), 2, Len(loc.tickers))[1][a]

\* C23: the Heston aggregation holds weight * initial value / starting price
\* shares of each asset, so the portfolio valued at the starting prices is
\* the initial value times the sum of the weights: the initial value exactly
\* when the weights sum to 1, and not rescaled to it when they do not.  With a
\* horizon of 0 days these values are the final distribution returned.
C23_StartValueIsWeightSum ==
    (req.kind = "heston" /\ V # NoPaths) =>
        \E share_counts \in {ShareCounts(req.weights, req.initial_value,
                                         loc.starting_prices)} :
        \E at_start \in {FinalPortfolioValues(S[0], share_counts)} :
            /\ \A a \in 1..Len(req.weights) :
                  RMul(share_counts[a], loc.starting_prices[a])
                     = RMul(req.weights[a], req.initial_value)
            /\ \A p \in 1..req.n_paths :
                  /\ at_start[p] = RMul(req.initial_value, RSum(req.weights))
                  /\ at_start[p] = req.initial_value <=> RSum(req.weights) = R(1)
            /\ (pc = "done" /\ req.n_days = 0 /\ outcome.error = "None")
                  => outcome.final_distribution = at_start

\* A request whose weights sum to 3/2 has been answered for a horizon of 0
\* days: every final value is 3/2 of the initial value.
C23_Witness ==
    /\ req.kind = "heston" /\ pc = "done" /\ req.n_days = 0 /\ req.n_paths = 2
    /\ Len(req.weights) = 2 /\ RSum(req.weights) = <<3, 2>>
    /\ outcome.error = "None"
    /\ outcome.final_distribution
          = <<RMul(req.initial_value, <<3, 2>>), RMul(req.initial_value, <<3, 2>>)>>

\* The arguments of run_monte_carlo_simulation as the call holds them are the
\* ones it was given; the catalogue has its ten windows, in the order and
\* with the dates of SCENARIO_EVENTS, each with start <= end.
C24_InputsAsGiven ==
    /\ req.kind = "mc" /\ pc = "mc_loop" =>
          /\ loc.weights = req.weights
          /\ loc.last_prices = LastPrices(req.ds, req.tickers,
                                          PriceRows(req.ds, req.start, req.end))
    /\ scenario_events = SCENARIO_EVENTS
    /\ Len(scenario_events) = 10
    /\ \A k \in 1..Len(scenario_events) : scenario_events[k].start <= scenario_events[k].end

\* No step of either function changes an argument or the catalogue.
C24_StepKeepsInputs ==
    req.kind \in {"mc", "replay"} =>
        /\ req' = req
        /\ scenario_events' = scenario_events
        /\ (pc = "mc_loop" => loc' = loc)

\* C24: run_monte_carlo_simulation and scenario_stress_test leave their
\* inputs -- data, ticker list, weights -- and the scenario catalogue
\* unchanged; after a replay the catalogue still has its ten windows in the
\* same order, each with start <= end.
C24_InputsAreImmutable ==
    /\ []C24_InputsAsGiven
    /\ [][C24_StepKeepsInputs]_vars

\* A replay has returned after simulating at least two windows.
C24_Witness ==
    /\ req.kind = "replay" /\ pc = "done" /\ ev = 11
    /\ Len(scenarioResults) >= 2
    /\ scenario_events = SCENARIO_EVENTS

\* One iteration of the replay loop, written without the weights argument:
\* whether the window is simulated, which assets it uses and every number of
\* the two entries it appends follow from the data, the ticker list, the
\* benchmark, the path count, the initial amount and the generator's state,
\* with equal weights 1/k over the k usable assets.
C25_StepIgnoresWeights ==
    (req.kind = "replay" /\ pc = "replay" /\ pc' = "replay") =>
        \E event \in {scenario_events[ev]} :
        \E rows \in {EventRows(req.ds, event)} :
        \E available \in {AvailableTickers(req.ds, req.tickers, rows)} :
        \E k \in {Len(available)} : \E sim_len \in {Cardinality(rows)} :
          IF scenarioResults' = scenarioResults
          THEN /\ scenarioDistributions' = scenarioDistributions
               /\ rng' = rng
               /\ EventSkipped(available, WindowBench(req.benchmark))
                     \/ stdout' # stdout
          ELSE \E cov \in {CovMatrix(Frame(req.ds, available, rows))} :
               \E last_prices \in {LastPrices(req.ds, available, rows)} :
               \E paths \in {PathLoop(
                                SetInitialRow(Zeros(sim_len, req.n_sim), req.initial_value),
                                1, rng,
                                [n_sim |-> req.n_sim, n_days |-> sim_len,
                                 drift |-> Drift(MeanVector(Frame(req.ds, available, rows)),
                                                 cov),
                                 chol |-> Cholesky(cov, FALSE).L,
                                 last_prices |-> last_prices,
                                 weights |-> EqualWeights(k),
                                 scale_factor |-> ScaleFactor(req.initial_value,
                                                              last_prices,
                                                              EqualWeights(k))])} :
               \E returns \in {Arr([j \in 1..req.n_sim |->
                                      Drawdown(paths[sim_len][j], req.initial_value)])} :
               \E bench \in {Drawdown(BenchCompoundRet(
                                          ColumnOf(req.ds, WindowBench(req.benchmark), rows),
                                          req.initial_value),
                                      req.initial_value)} :
                 /\ ~EventSkipped(available, WindowBench(req.benchmark))
                 /\ scenarioResults' =
                       Append(scenarioResults,
                              [Event |-> event.label, ScenarioLength |-> sim_len,
                               StocksUsed |-> available,
                               PortfolioMeanReturn |-> RMean(returns),
                               BenchmarkReturn |-> bench])
                 /\ scenarioDistributions' =
                       Append(scenarioDistributions,
                              [eventLabel |-> <<event.label, sim_len, k>>,
                               returns |-> returns, portfolioMean |-> RMean(returns),
                               benchmark |-> bench])
                 /\ rng' = RngAdvance(rng, req.n_sim * sim_len * k)

\* C25: the results of a scenario replay do not depend on the weights
\* argument: every step of the replay selects its window's assets and computes
\* its summaries and distributions from the other arguments and the random
\* draws alone, with equal weights 1/k, so two calls that differ only in the
\* weights produce the same windows, assets, summaries and distributions.
C25_ReplayIgnoresWeights == [][C25_StepIgnoresWeights]_vars

\* A replay called with all the weight on the first asset has returned after
\* simulating a window of two or more assets whose simulated returns are not
\* all the same.
C25_Witness ==
    /\ req.kind = "replay" /\ pc = "done" /\ req.n_sim = 2
    /\ req.weights = FirstOnly(Len(req.tickers)) /\ Len(req.tickers) >= 2
    /\ \E k \in 1..Len(scenarioDistributions) :
          /\ scenarioDistributions[k].eventLabel[3] >= 2
          /\ scenarioDistributions[k].returns[1] # scenarioDistributions[k].returns[2]

\* The path an iteration of either path loop writes is the path the other
\* implementation computes from the same drift, factor, last prices, weights,
\* initial value and matrix of draws, at every time step.
C26_StepWritesBothPaths ==
    /\ (req.kind = "mc" /\ pc = "mc_loop" /\ i' = i + 1) =>
          \E shocks \in {DrawMatrix(rng, req.n_days, Len(req.tickers))} :
          \E other \in {EndpointPath(loc.drift, loc.chol, loc.last_prices, loc.weights,
                                     req.initial_value, shocks)} :
             \A u \in 1..req.n_days : sim_paths'[u][i] = other[u]
    /\ (req.kind = "montecarlo" /\ pc = "montecarlo_loop" /\ i' = i + 1) =>
          \E shocks \in {DrawMatrix(rng, req.n_days, Len(loc.tickers))} :
          \E other \in {GbmPath(loc.drift, loc.chol, loc.last_prices, loc.weights,
                                ScaleFactor(req.initial_value, loc.last_prices,
                                            loc.weights),
                                shocks)} :
             \A u \in 1..req.n_days : sim_paths'[u][i] = other[u]

\* C26: the two GBM implementations are equivalent: from the same mean,
\* covariance, last prices, weights, initial value and draws, the path of
\* run_monte_carlo_simulation ((L @ shocks^T)^T, scale factor computed once)
\* equals the path of the /montecarlo endpoint (shocks @ L^T, scale factor
\* computed per path) at every time step.
C26_GbmImplementationsAgree == [][C26_StepWritesBothPaths]_vars

\* The endpoint has written a two-day path of a portfolio whose factor has a
\* non-zero entry below the diagonal, and the path moves.
C26_Witness ==
    /\ req.kind = "montecarlo" /\ pc = "montecarlo_loop" /\ i = 2 /\ req.n_days = 2
    /\ \E a \in 1..Len(loc.chol) : \E k \in 1..(a - 1) :
          loc.chol[a][k] # R(0) /\ ~IsNaN(loc.chol[a][k])
    /\ sim_paths[1][1] # sim_paths[2][1]
    /\ ~IsNaN(sim_paths[2][1])

\* The path an iteration of a GBM path loop writes is also the path computed
\* from the same draws after all last prices, or all weights, are multiplied
\* by a common positive constant c.
C27_StepIsUnitFree ==
    \A c \in {<<1, 2>>, R(3)} :
      /\ (req.kind = "mc" /\ pc = "mc_loop" /\ i' = i + 1) =>
            \E shocks \in {DrawMatrix(rng, req.n_days, Len(req.tickers))} :
            \E prices \in {Arr([a \in 1..Len(loc.last_prices) |->
                                   RMul(c, loc.last_prices[a])])} :
            \E weights \in {Arr([a \in 1..Len(loc.weights) |-> RMul(c, loc.weights[a])])} :
            \E by_prices \in {GbmPath(loc.drift, loc.chol, prices, loc.weights,
                                      ScaleFactor(req.initial_value, prices, loc.weights),
                                      shocks)} :
            \E by_weights \in {GbmPath(loc.drift, loc.chol, loc.last_prices, weights,
                                       ScaleFactor(req.initial_value, loc.last_prices,
                                                   weights),
                                       shocks)} :
               \A u \in 1..req.n_days :
                   sim_paths'[u][i] = by_prices[u] /\ sim_paths'[u][i] = by_weights[u]
      /\ (req.kind = "montecarlo" /\ pc = "montecarlo_loop" /\ i' = i + 1) =>
            \E shocks \in {DrawMatrix(rng, req.n_days, Len(loc.tickers))} :
            \E prices \in {Arr([a \in 1..Len(loc.last_prices) |->
                                   RMul(c, loc.last_prices[a])])} :
            \E weights \in {Arr([a \in 1..Len(loc.weights) |-> RMul(c, loc.weights[a])])} :
            \E by_prices \in {EndpointPath(loc.drift, loc.chol, prices, loc.weights,
                                           req.initial_value, shocks)} :
            \E by_weights \in {EndpointPath(loc.drift, loc.chol, loc.last_prices, weights,
                                            req.initial_value, shocks)} :
               \A u \in 1..req.n_days :
                   sim_paths'[u][i] = by_prices[u] /\ sim_paths'[u][i] = by_weights[u]

\* C27: the GBM rescaling makes the simulated portfolio values independent of
\* units: multiplying all last prices, or all weights, by a common positive
\* constant leaves every entry of the path ensemble unchanged for the same
\* random draws.
C27_RescalingIsUnitFree == [][C27_StepIsUnitFree]_vars

\* A direct call has written a two-day path of a portfolio of two or more
\* assets with different last prices; the path ends away from the initial
\* value.
C27_Witness ==
    /\ req.kind = "mc" /\ pc = "mc_loop" /\ i = 2 /\ req.n_days = 2
    /\ Len(req.tickers) >= 2 /\ loc.last_prices[1] # loc.last_prices[2]
    /\ ~IsNaN(sim_paths[2][1]) /\ sim_paths[2][1] # req.initial_value
    /\ sim_paths[1][1] # sim_paths[2][1]

C29_BadRequestIs400 ==
    (/\ req.kind \in {"montecarlo", "heston"}
     /\ RequestRejected(req.tickers, req.weights)) =>
        /\ loc = NoLocals /\ sim_paths = NoPaths /\ S = NoPaths /\ V = NoPaths
        /\ pc = "done" => outcome.status = 400

\* A request without a valid ticker has been answered with status 200 and
\* the body of the error branch; nothing was fetched or simulated.
C29_RejectionAnsweredWith200 ==
    ~ /\ req.kind \in {"montecarlo", "heston"} /\ pc = "done"
      /\ Len(ValidTickers(req.tickers)) = 0
      /\ outcome.kind = "response" /\ outcome.status = 200
      /\ outcome.error = "HTTPException" /\ outcome.final_distribution = <<>>
      /\ loc = NoLocals /\ sim_paths = NoPaths /\ S = NoPaths

\* Lines 476-491 as a relation: the parameter sets the calibration of one
\* asset may end with, for one series of returns.
CalibrationOutcomes(returns) ==
    IF LossRaises(Len(returns)) THEN {DefaultParams}
    ELSE {run.x : run \in OptimizerRuns(returns)}

\* Lines 515-524 as a function: the price slice at the horizon, from the
\* slices at time u - 1 and the generator state r; p holds the loop's
\* invariant operands.
RECURSIVE HestonSlices(_, _, _, _, _)
HestonSlices(s_prev, v_prev, r, u, p) ==
    IF u > p.n_days THEN s_prev
    ELSE LET n_assets == Len(p.tickers)
             Z_uncorr == DrawMatrix(r, p.n_paths, n_assets)
             Z_vol    == DrawMatrix(RngAdvance(r, p.n_paths * n_assets), p.n_paths, n_assets)
             v_new    == Arr([k \in 1..p.n_paths |->
                             Arr([a \in 1..n_assets |->
                                     NextVariance(v_prev[k][a], p.params[p.tickers[a]],
                                                  Z_vol[k][a])])])
             s_new    == Arr([k \in 1..p.n_paths |->
                             Arr([a \in 1..n_assets |->
                                     NextPrice(s_prev[k][a], v_new[k][a], p.mu_vec[a],
                                               ZPrice(p.params[p.tickers[a]].rho,
                                                      Z_vol[k][a], Z_uncorr[k][a]))])])
         IN  HestonSlices(s_new, v_new, RngAdvance(r, 2 * p.n_paths * n_assets), u + 1, p)

\* Lines 494-544 as a function of the request, the downloaded statistics and
\* the calibrated parameters: the final portfolio values.
HestonRun(request, locals, params) ==
    FinalPortfolioValues(
        HestonSlices(Arr([k \in 1..request.n_paths |-> locals.starting_prices]),
                     Arr([k \in 1..request.n_paths |->
                            Arr([a \in 1..Len(locals.tickers) |->
                                    params[locals.tickers[a]].theta])]),
                     Seeded(SEED), 1,
                     [n_days |-> request.n_days, n_paths |-> request.n_paths,
                      tickers |-> locals.tickers, mu_vec |-> locals.mu_vec,
                      params |-> params]),
        ShareCounts(request.weights, request.initial_value, locals.starting_prices))

\* C30: a Heston request is reproducible: the final distribution and the risk
\* metrics returned are the ones every run of the same request returns,
\* whatever the calibration, which draws from the generator before the seed is
\* set, ends with.
C30_HestonIsReproducible ==
    (req.kind = "heston" /\ pc = "done" /\ outcome.error = "None") =>
        \A params \in [DOMAIN heston_params ->
                          UNION {CalibrationOutcomes(DropNaN(loc.log_returns[a])) :
                                    a \in 1..Len(loc.tickers)}] :
            (\A a \in 1..Len(loc.tickers) :
                 params[loc.tickers[a]] \in CalibrationOutcomes(DropNaN(loc.log_returns[a])))
            => outcome = HestonResponse(req, HestonRun(req, loc, params))

\* A one-asset request has been answered with the values simulated from the
\* parameters its calibration ended with; another end of the calibration of
\* the same returns gives other final values and another VaR.
C30_AnotherCalibrationAnotherAnswer ==
    ~ /\ req.kind = "heston" /\ pc = "done" /\ outcome.error = "None"
      /\ Len(loc.tickers) = 1 /\ req.n_days >= 1 /\ req.n_paths >= 1
      /\ outcome.final_distribution = HestonRun(req, loc, heston_params)
      /\ \E x \in CalibrationOutcomes(DropNaN(loc.log_returns[1])) :
            \E other \in {HestonRun(req, loc, (loc.tickers[1] :> x))} :
               /\ x # heston_params[loc.tickers[1]]
               /\ other # outcome.final_distribution
               /\ HestonResponse(req, other).var_value # outcome.var_value
               /\ \A k \in 1..Len(other) : ~IsNaN(other[k])

====
